---- MODULE Spec2Model ----
(***************************************************************************)
(* rt82weather: the condition classifier, the icon synthesizer, the layout *)
(* renderer, the persisted configuration, the update schedule, the         *)
(* provider registry, the BBC provider and the commands, as state          *)
(* machines.                                                               *)
(*                                                                         *)
(* Strings are sequences of one-character strings, so that lower(),        *)
(* strip() and capitalize() are computed and not assumed.                  *)
(***************************************************************************)
EXTENDS Integers, Sequences, FiniteSets, TLC

VARIABLES
  condition,   \* classifier: the argument of _condition_to_icon
  origin,      \* classifier: index in Vocabulary of the phrase condition was derived from, 0 for free text
  icon,        \* classifier: the value returned, PENDING before the call
  icon_type,   \* icons: the category passed to draw_icon
  size,        \* icons: the size passed to draw_icon
  icon_img,    \* icons: what draw_icon gave, NoImage before the call
  fonts,       \* file system: candidate font path -> ABSENT, FONT or BROKEN
  font_size,   \* fonts: the size passed to _load_font
  loaded,      \* fonts: what _load_font gave, NotLoaded before the call
  clock,       \* renderer: datetime.now(), the wall clock
  forecast,    \* renderer: the forecast of the latest render_weather call
  now,         \* renderer: the now of the latest call, None when omitted
  img,         \* renderer: what the latest call gave, NoRender before it
  earlier,     \* renderer: an earlier call with an explicit now, kept to compare
  config_file, \* config: what CONFIG_FILE holds
  load_out,    \* config: what the latest load_config gave, NotLoadedConfig before it
  last_saved,  \* config: the Config of the latest save_config, NoSave once the file is someone else's
  wallclock,   \* schedule: datetime.now(), in half seconds
  cfg_obj,     \* schedule: the last_updated and update_hours of a Config object
  due,         \* schedule: what needs_update gave for the present time and Config, NotAsked when not asked
  providers,   \* registry: _PROVIDERS
  history,     \* registry: the register_provider calls so far, <<name, class>> each
  made,        \* registry: the provider objects created so far
  asked,       \* registry: the name and keyword arguments of the latest get_provider call
  got,         \* registry: what get_provider gave for the present registry, NotGot when not asked
  listed,      \* registry: what list_providers gave for the present registry, NotListed when not asked
  prov,        \* bbc: the provider object in use, NoProvider before one is made
  response,    \* bbc: what the server answered to the latest request
  request,     \* bbc: the latest requests.get call
  found,       \* bbc: what the latest search_location gave, NotFound before it
  fetched,     \* bbc: what the latest get_forecast gave, NotFetched before it
  ran          \* cli: the latest command run, NotRun before one

classifierVars == <<condition, origin, icon>>
iconVars == <<icon_type, size, icon_img>>
fontVars == <<font_size, loaded>>
renderVars == <<clock, forecast, now, img, earlier>>
configVars == <<config_file, load_out, last_saved>>
coreVars == <<classifierVars, iconVars, fonts, fontVars, renderVars, configVars>>
scheduleVars == <<wallclock, cfg_obj, due>>
registryVars == <<providers, history, made, asked, got, listed>>
bbcVars == <<prov, response, request, found, fetched>>
cliVars == <<ran>>
appVars == <<scheduleVars, registryVars, bbcVars, cliVars>>
vars == <<condition, origin, icon, icon_type, size, icon_img,
          fonts, font_size, loaded, clock, forecast, now, img, earlier,
          config_file, load_out, last_saved, wallclock, cfg_obj, due,
          providers, history, made, asked, got, listed,
          prov, response, request, found, fetched, ran>>

Min(S) == CHOOSE x \in S : \A y \in S : x <= y
Max(S) == CHOOSE x \in S : \A y \in S : x >= y

\* ---------------------------------------------------------------- bounds
\* how many letters of a vocabulary phrase are upper-cased one by one
MaxUpper == 1
\* how many whitespace characters are added around a phrase, both sides
\* together
MaxPad == 1
\* the largest update_hours of a Config
MaxUpdateHours == 2
\* how many hours of wall-clock time are followed
MaxHours == 3
\* how many register_provider calls are followed
MaxRegistrations == 3
\* how many provider objects are created
MaxObjects == 2
\* the most entries of a search response
MaxEntries == 3
\* the most forecasts of a forecast response
MaxForecasts == 2
\* how many numbers are typed at the prompt of configure
MaxTyped == 2
\* how many places the longest search result has
MaxResults == 16
\* the longest free-text condition
MaxFreeLen == 4
\* the largest icon size drawn
MaxIconSize == 120
\* how many hours the wall clock advances
MaxTicks == 2

\* ------------------------------------------------------------- IconType
SUN == "sun"
PARTLY_CLOUDY == "partly_cloudy"
CLOUD == "cloud"
RAIN == "rain"
SNOW == "snow"
THUNDERSTORM == "thunderstorm"
MIST == "mist"
IconType == {SUN, PARTLY_CLOUDY, CLOUD, RAIN, SNOW, THUNDERSTORM, MIST}

\* ------------------------------------------------------------ str methods
UpperLetters ==
  <<"A","B","C","D","E","F","G","H","I","J","K","L","M",
    "N","O","P","Q","R","S","T","U","V","W","X","Y","Z">>
LowerLetters ==
  <<"a","b","c","d","e","f","g","h","i","j","k","l","m",
    "n","o","p","q","r","s","t","u","v","w","x","y","z">>
\* the whitespace str.strip() removes (the ASCII part that the model uses)
Whitespace == {" ", "\t", "\n"}

IsUpper(c) == \E i \in 1..26 : UpperLetters[i] = c
IsLower(c) == \E i \in 1..26 : LowerLetters[i] = c
char_lower(c) ==
  IF IsUpper(c) THEN LowerLetters[CHOOSE i \in 1..26 : UpperLetters[i] = c] ELSE c
char_upper(c) ==
  IF IsLower(c) THEN UpperLetters[CHOOSE i \in 1..26 : LowerLetters[i] = c] ELSE c

\* str.lower()
str_lower(s) == [i \in 1..Len(s) |-> char_lower(s[i])]
\* str.upper()
str_upper(s) == [i \in 1..Len(s) |-> char_upper(s[i])]
\* str.strip(): drop the leading and the trailing whitespace, keep the inner
str_strip(s) ==
  LET keep == {i \in 1..Len(s) : s[i] \notin Whitespace}
  IN  IF keep = {} THEN <<>> ELSE SubSeq(s, Min(keep), Max(keep))

\* ----------------------------------------------------- providers/bbc.py
_CONDITION_TO_ICON ==
  <<
    <<<<"s","u","n","n","y">>, SUN>>,
    <<<<"c","l","e","a","r">>, SUN>>,
    <<<<"c","l","e","a","r"," ","s","k","y">>, SUN>>,
    <<<<"s","u","n","n","y"," ","i","n","t","e","r","v","a","l","s">>, PARTLY_CLOUDY>>,
    <<<<"l","i","g","h","t"," ","c","l","o","u","d">>, PARTLY_CLOUDY>>,
    <<<<"p","a","r","t","l","y"," ","c","l","o","u","d","y">>, PARTLY_CLOUDY>>,
    <<<<"c","l","o","u","d","y">>, CLOUD>>,
    <<<<"w","h","i","t","e"," ","c","l","o","u","d">>, CLOUD>>,
    <<<<"g","r","e","y"," ","c","l","o","u","d">>, CLOUD>>,
    <<<<"t","h","i","c","k"," ","c","l","o","u","d">>, CLOUD>>,
    <<<<"d","r","i","z","z","l","e">>, RAIN>>,
    <<<<"l","i","g","h","t"," ","s","h","o","w","e","r">>, RAIN>>,
    <<<<"l","i","g","h","t"," ","r","a","i","n"," ","s","h","o","w","e","r">>, RAIN>>,
    <<<<"l","i","g","h","t"," ","r","a","i","n"," ","s","h","o","w","e","r","s">>, RAIN>>,
    <<<<"l","i","g","h","t"," ","s","h","o","w","e","r","s">>, RAIN>>,
    <<<<"l","i","g","h","t"," ","r","a","i","n">>, RAIN>>,
    <<<<"h","e","a","v","y"," ","r","a","i","n">>, RAIN>>,
    <<<<"h","e","a","v","y"," ","s","h","o","w","e","r","s">>, RAIN>>,
    <<<<"h","e","a","v","y"," ","s","h","o","w","e","r">>, RAIN>>,
    <<<<"h","e","a","v","y"," ","r","a","i","n"," ","s","h","o","w","e","r">>, RAIN>>,
    <<<<"h","e","a","v","y"," ","r","a","i","n"," ","s","h","o","w","e","r","s">>, RAIN>>,
    <<<<"t","h","u","n","d","e","r","y"," ","s","h","o","w","e","r">>, THUNDERSTORM>>,
    <<<<"t","h","u","n","d","e","r","y"," ","s","h","o","w","e","r","s">>, THUNDERSTORM>>,
    <<<<"t","h","u","n","d","e","r","s","t","o","r","m">>, THUNDERSTORM>>,
    <<<<"t","r","o","p","i","c","a","l"," ","s","t","o","r","m">>, THUNDERSTORM>>,
    <<<<"m","i","s","t","y">>, MIST>>,
    <<<<"m","i","s","t">>, MIST>>,
    <<<<"f","o","g">>, MIST>>,
    <<<<"f","o","g","g","y">>, MIST>>,
    <<<<"h","a","z","y">>, MIST>>,
    <<<<"l","i","g","h","t"," ","s","n","o","w">>, SNOW>>,
    <<<<"l","i","g","h","t"," ","s","n","o","w"," ","s","h","o","w","e","r">>, SNOW>>,
    <<<<"l","i","g","h","t"," ","s","n","o","w"," ","s","h","o","w","e","r","s">>, SNOW>>,
    <<<<"c","l","o","u","d","y"," ","w","i","t","h"," ","l","i","g","h","t"," ","s","n","o","w">>, SNOW>>,
    <<<<"h","e","a","v","y"," ","s","n","o","w">>, SNOW>>,
    <<<<"h","e","a","v","y"," ","s","n","o","w"," ","s","h","o","w","e","r">>, SNOW>>,
    <<<<"h","e","a","v","y"," ","s","n","o","w"," ","s","h","o","w","e","r","s">>, SNOW>>,
    <<<<"c","l","o","u","d","y"," ","w","i","t","h"," ","h","e","a","v","y"," ","s","n","o","w">>, SNOW>>,
    <<<<"s","l","e","e","t">>, RAIN>>,
    <<<<"s","l","e","e","t"," ","s","h","o","w","e","r">>, RAIN>>,
    <<<<"s","l","e","e","t"," ","s","h","o","w","e","r","s">>, RAIN>>,
    <<<<"c","l","o","u","d","y"," ","w","i","t","h"," ","s","l","e","e","t">>, RAIN>>,
    <<<<"h","a","i","l">>, RAIN>>,
    <<<<"h","a","i","l"," ","s","h","o","w","e","r">>, RAIN>>,
    <<<<"h","a","i","l"," ","s","h","o","w","e","r","s">>, RAIN>>,
    <<<<"c","l","o","u","d","y"," ","w","i","t","h"," ","h","a","i","l">>, RAIN>>
  >>

\* dict.get(key, default) on a dict literal given as <<key, value>> pairs
dict_get(table, key, default) ==
  IF \E i \in 1..Len(table) : table[i][1] = key
  THEN table[Max({i \in 1..Len(table) : table[i][1] = key})][2]
  ELSE default

\* a classifier that forgets lower(): only the trimmed text is looked up
_condition_to_icon_nolower(cond) ==
  dict_get(_CONDITION_TO_ICON, str_strip(cond), CLOUD)

\* whether key occurs in s as a contiguous substring
Contains(s, key) ==
  \E a \in 1..(Len(s) + 1) :
    /\ a + Len(key) - 1 <= Len(s)
    /\ SubSeq(s, a, a + Len(key) - 1) = key

\* a classifier that matches a key anywhere in the text (fuzzy matching)
_condition_to_icon_fuzzy(cond) ==
  LET norm == str_strip(str_lower(cond))
      hits == {i \in 1..Len(_CONDITION_TO_ICON) : Contains(norm, _CONDITION_TO_ICON[i][1])}
  IN  IF hits = {} THEN CLOUD ELSE _CONDITION_TO_ICON[Min(hits)][2]

_condition_to_icon(cond) ==
  dict_get(_CONDITION_TO_ICON, str_strip(str_lower(cond)), CLOUD)

PENDING == "pending"
IdleClassifier == condition = <<>> /\ origin = 0 /\ icon = PENDING

\* ------------------------------------------------------------- icons.py
NONE == "none"
RETURNED == "returned"

\* Python numbers: v is the value in units of 1/100000 (every product of
\* icons.py is exact in them), float tells a float from an int
Fix(n) == n * 100000
PyInt(n) == [v |-> Fix(n), float |-> FALSE]
PyFloat(x) == [v |-> x, float |-> TRUE]
\* x * 0.pp, x * 1.1: the product with a float literal of p hundredths
Times(x, p) == (x * p) \div 100
\* int(x) and the C cast (int)x: towards zero
Trunc(x) == IF x >= 0 THEN x \div Fix(1) ELSE -((-x) \div Fix(1))
\* a // n: the floor, of the type of a
py_floordiv(a, n) == [v |-> Fix(a.v \div Fix(n)), float |-> a.float]
\* max(a, b): the first of the largest
py_max(a, b) == IF b.v > a.v THEN b ELSE a

\* The primitives of ImageDraw.  Each gives what the call raised and core,
\* a pixel the call certainly paints when it lies on the canvas: the pixel
\* at the centre of the primitive.  The fill colours are RGB triples, so a
\* painted pixel of the RGBA canvas has alpha 255.
\* ImageDraw.ellipse([x0, y0, x1, y1], fill)
ellipse(x0, y0, x1, y1) ==
  [raised |-> IF x1 < x0 \/ y1 < y0 THEN "ValueError" ELSE NONE,
   core |-> <<(Trunc(x0) + Trunc(x1)) \div 2, (Trunc(y0) + Trunc(y1)) \div 2>>]
\* ImageDraw.rectangle([x0, y0, x1, y1], fill)
rectangle(x0, y0, x1, y1) ==
  [raised |-> IF x1 < x0 \/ y1 < y0 THEN "ValueError" ELSE NONE,
   core |-> <<(Trunc(x0) + Trunc(x1)) \div 2, (Trunc(y0) + Trunc(y1)) \div 2>>]
\* ImageDraw.line([(x0, y0), (x1, y1)], fill, width): the width is parsed as
\* a C int, a float is refused with TypeError
line(x0, y0, x1, y1, width) ==
  [raised |-> IF width.float THEN "TypeError" ELSE NONE,
   core |-> <<(Trunc(x0) + Trunc(x1)) \div 2, (Trunc(y0) + Trunc(y1)) \div 2>>]
\* ImageDraw.polygon(points, fill): core is the centre of the first three
\* corners, which lies inside the bolt
polygon(points) ==
  [raised |-> NONE,
   core |-> <<Trunc((points[1][1] + points[2][1] + points[3][1]) \div 3),
              Trunc((points[1][2] + points[2][2] + points[3][2]) \div 3)>>]

\* math.cos and math.sin of 0, 45, ..., 315 degrees, in hundredths
Cos100 == <<100, 71, 0, -71, -100, -71, 0, 71>>
Sin100 == <<0, 71, 100, 71, 0, -71, -100, -71>>

\* cx, cy: ints; r: a Python number
_draw_sun(cx, cy, r) ==
  LET ray_len == Times(r.v, 55)
      width == py_max(PyInt(2), py_floordiv(r, 6))
      near == r.v + Fix(3)
      far == r.v + Fix(3) + ray_len
  IN  <<ellipse(Fix(cx) - r.v, Fix(cy) - r.v, Fix(cx) + r.v, Fix(cy) + r.v)>>
      \o [k \in 1..8 |->
            line(Fix(cx) + Times(near, Cos100[k]), Fix(cy) + Times(near, Sin100[k]),
                 Fix(cx) + Times(far, Cos100[k]), Fix(cy) + Times(far, Sin100[k]),
                 width)]

\* cx, cy: ints; w, h: floats in fixed point
_draw_cloud(cx, cy, w, h) ==
  LET ew == Times(w, 45)
      eh == Times(h, 55)
  IN  <<ellipse(Fix(cx) - Times(w, 35), Fix(cy) - Times(h, 15),
                Fix(cx) - Times(w, 35) + ew, Fix(cy) - Times(h, 15) + eh),
        ellipse(Fix(cx) - Times(w, 10), Fix(cy) - Times(h, 45),
                Fix(cx) - Times(w, 10) + Times(ew, 110),
                Fix(cy) - Times(h, 45) + Times(eh, 110)),
        ellipse(Fix(cx) + Times(w, 5), Fix(cy) - Times(h, 20),
                Fix(cx) + Times(w, 5) + ew, Fix(cy) - Times(h, 20) + eh),
        rectangle(Fix(cx) - Times(w, 35), Fix(cy) + Times(h, 5),
                  Fix(cx) + Times(w, 45), Fix(cy) + Times(h, 25))>>

\* cx, cy, w, count: ints
_draw_rain_drops(cx, cy, w, count) ==
  LET spacing == w \div (count + 1)
      start_x == cx - w \div 2 + spacing
  IN  [k \in 1..count |->
         LET x == start_x + (k - 1) * spacing
         IN  line(Fix(x), Fix(cy), Fix(x - 3), Fix(cy + 10), PyInt(2))]

_draw_snow_dots(cx, cy, w, count) ==
  LET spacing == w \div (count + 1)
      start_x == cx - w \div 2 + spacing
  IN  [k \in 1..count |->
         LET x == start_x + (k - 1) * spacing
             y == cy + ((k - 1) % 2) * 5
             r == 2
         IN  ellipse(Fix(x - r), Fix(y - r), Fix(x + r), Fix(y + r))]

_draw_bolt(cx, cy) ==
  <<polygon(<< <<Fix(cx - 2), Fix(cy)>>, <<Fix(cx - 6), Fix(cy + 10)>>,
               <<Fix(cx - 1), Fix(cy + 8)>>, <<Fix(cx + 2), Fix(cy + 18)>>,
               <<Fix(cx + 4), Fix(cy + 8)>>, <<Fix(cx + 1), Fix(cy + 10)>> >>)>>

\* the four lines of the mist icon; abs(i - 1.5) * 4 is 6, 2, 2, 6
MistLines(sz) ==
  LET cx == sz \div 2
      cy == sz \div 2
      y_start == cy - sz \div 6
  IN  [k \in 1..4 |->
         LET y == y_start + (k - 1) * (sz \div 8)
             half_w == Fix(sz \div 3) - (IF k \in {1, 4} THEN Fix(6) ELSE Fix(2))
         IN  line(Fix(cx) - half_w, Fix(y), Fix(cx) + half_w, Fix(y), PyInt(3))]

\* the calls draw_icon makes for a category, in order
IconCalls(type, sz) ==
  LET cx == sz \div 2
      cy == sz \div 2
      r == sz \div 4
  IN  CASE type = SUN -> _draw_sun(cx, cy, PyInt(r))
        [] type = PARTLY_CLOUDY ->
             _draw_sun(cx - sz \div 8, cy - sz \div 8, PyFloat(Times(Fix(r), 70)))
             \o _draw_cloud(cx + sz \div 10, cy + sz \div 10,
                            Times(Fix(sz), 50), Times(Fix(sz), 35))
        [] type = CLOUD ->
             _draw_cloud(cx, cy - sz \div 12, Times(Fix(sz), 60), Times(Fix(sz), 40))
        [] type = RAIN ->
             _draw_cloud(cx, cy - sz \div 6, Times(Fix(sz), 55), Times(Fix(sz), 35))
             \o _draw_rain_drops(cx, cy + sz \div 6, Trunc(Times(Fix(sz), 50)), 4)
        [] type = SNOW ->
             _draw_cloud(cx, cy - sz \div 6, Times(Fix(sz), 55), Times(Fix(sz), 35))
             \o _draw_snow_dots(cx, cy + sz \div 6, Trunc(Times(Fix(sz), 50)), 5)
        [] type = THUNDERSTORM ->
             _draw_cloud(cx, cy - sz \div 5, Times(Fix(sz), 60), Times(Fix(sz), 38))
             \o _draw_bolt(cx, cy + sz \div 8)
        [] type = MIST -> MistLines(sz)
        [] OTHER -> <<>>

NoImage == [outcome |-> PENDING, mode |-> NONE, size |-> <<0, 0>>, painted |-> {}]

\* Image.new("RGBA", (size, size), (0, 0, 0, 0)) and the calls on it: the
\* first call that raises ends draw_icon, otherwise the image is returned
Drawn(calls, sz) ==
  LET bad == {i \in 1..Len(calls) : calls[i].raised # NONE}
  IN  IF bad # {}
      THEN [outcome |-> calls[Min(bad)].raised, mode |-> NONE, size |-> <<0, 0>>,
            painted |-> {}]
      ELSE [outcome |-> RETURNED, mode |-> "RGBA", size |-> <<sz, sz>>,
            painted |-> {c \in {calls[i].core : i \in 1..Len(calls)} :
                           c[1] \in 0..(sz - 1) /\ c[2] \in 0..(sz - 1)}]

\* draw_icon without the branch of the mist icon
draw_icon_nomist(type, sz) ==
  Drawn(IF type = MIST THEN <<>> ELSE IconCalls(type, sz), sz)

draw_icon(type, sz) == Drawn(IconCalls(type, sz), sz)

\* ------------------------------------------------------------ render.py
DISPLAY_WIDTH == 240
DISPLAY_HEIGHT == 136

_BG_COLOR == <<10, 10, 15>>
_TEXT_COLOR == <<240, 240, 240>>
_TEMP_MIN_COLOR == <<100, 180, 255>>
_TEMP_MAX_COLOR == <<255, 120, 80>>
_LABEL_COLOR == <<160, 160, 170>>
_DATE_COLOR == <<130, 130, 140>>

_HEADER_HEIGHT == 18
ICON_SIZE == 72
ICON_X == 10
ICON_Y == _HEADER_HEIGHT + (DISPLAY_HEIGHT - _HEADER_HEIGHT - ICON_SIZE) \div 2

\* the state of a path of the file system
ABSENT == "absent"
FONT == "font"
BROKEN == "broken"
FileState == {ABSENT, FONT, BROKEN}

\* the candidates of _load_font, in order
FontCandidates ==
  <<"/usr/share/fonts/truetype/dejavu/DejaVuSans-Bold.ttf",
    "/usr/share/fonts/truetype/liberation/LiberationSans-Bold.ttf",
    "/usr/share/fonts/TTF/DejaVuSans-Bold.ttf",
    "/System/Library/Fonts/Helvetica.ttc",
    "/System/Library/Fonts/SFCompact.ttf">>
FontPaths == {FontCandidates[i] : i \in 1..Len(FontCandidates)}

\* ImageFont.load_default(): the built-in font, of its own size
DEFAULT_FONT == "default"
DefaultFontSize == 10
\* ImageFont.truetype(path, size): OSError when the file is no font
truetype(fs, path, sz) ==
  IF fs[path] = FONT
  THEN [outcome |-> RETURNED, face |-> path, size |-> sz]
  ELSE [outcome |-> "OSError", face |-> NONE, size |-> 0]

\* Path(path).exists() holds of a file whatever its content
_load_font(fs, sz) ==
  LET there == {i \in 1..Len(FontCandidates) : fs[FontCandidates[i]] # ABSENT}
  IN  IF there # {}
      THEN truetype(fs, FontCandidates[Min(there)], sz)
      ELSE [outcome |-> RETURNED, face |-> DEFAULT_FONT, size |-> DefaultFontSize]

\* draw.textbbox((0, 0), text, font): the width of the box, every glyph
\* taken to advance by 3/5 of the font's size
textbbox_w(text, font) == Len(text) * ((font.size * 3) \div 5)

DigitChars == <<"0","1","2","3","4","5","6","7","8","9">>
\* the decimal digits of a natural number
RECURSIVE Digits(_)
Digits(n) ==
  IF n < 10 THEN <<DigitChars[n + 1]>> ELSE Append(Digits(n \div 10), DigitChars[(n % 10) + 1])

\* f"{t:.0f}" of a float given in tenths: to the nearest integer, a tie to
\* the even one, the sign kept ("-0" for -0.4)
format_0f(t) ==
  LET mag == IF t < 0 THEN -t ELSE t
      q == mag \div 10
      rem == mag % 10
      n == IF rem > 5 \/ (rem = 5 /\ q % 2 = 1) THEN q + 1 ELSE q
  IN  (IF t < 0 THEN <<"-">> ELSE <<>>) \o Digits(n)

\* now.strftime("%b %d")
MonthAbbr ==
  << <<"J","a","n">>, <<"F","e","b">>, <<"M","a","r">>, <<"A","p","r">>,
     <<"M","a","y">>, <<"J","u","n">>, <<"J","u","l">>, <<"A","u","g">>,
     <<"S","e","p">>, <<"O","c","t">>, <<"N","o","v">>, <<"D","e","c">> >>
strftime_b_d(t) ==
  MonthAbbr[t.month] \o <<" ">> \o
  (IF t.day < 10 THEN <<"0">> ELSE <<>>) \o Digits(t.day)

\* str.capitalize(): the first character upper-cased, the rest lower-cased
str_capitalize(s) ==
  IF s = <<>> THEN <<>> ELSE <<char_upper(s[1])>> \o str_lower(Tail(s))

None == [month |-> 0, day |-> 0, hour |-> 0, minute |-> 0]
\* the degree sign and C
DEG_C == <<"deg", "C">>

NotLoaded == [outcome |-> PENDING, face |-> NONE, size |-> 0]
\* draw.text(xy, text, fill, font)
text_op(xy, text, fill, font) ==
  [op |-> "text", xy |-> xy, text |-> text, fill |-> fill, font |-> font,
   image |-> NoImage]
\* img.paste(image, xy, image)
paste_op(xy, image) ==
  [op |-> "paste", xy |-> xy, text |-> <<>>, fill |-> <<>>, font |-> NotLoaded,
   image |-> image]

\* a header time whose hour is now.hour % 12
time_str_mod12(t) ==
  LET hour == t.hour % 12
      ampm == IF t.hour < 12 THEN <<"A", "M">> ELSE <<"P", "M">>
  IN  Digits(hour) \o ampm
\* time_str = f"{hour}{ampm}" of the header
time_str(t) ==
  LET hour == IF t.hour % 12 = 0 THEN 12 ELSE t.hour % 12
      ampm == IF t.hour < 12 THEN <<"A", "M">> ELSE <<"P", "M">>
  IN  Digits(hour) \o ampm

Raised(what) == [outcome |-> what, mode |-> NONE, size |-> <<0, 0>>, ops |-> <<>>]

\* the body of render_weather once now is settled
RenderAt(fc, t, fs) ==
  LET font_date == _load_font(fs, 12)
      date_str == strftime_b_d(t)
      time_w == textbbox_w(time_str(t), font_date)
      icon_image == draw_icon(fc.icon_type, ICON_SIZE)
      text_x == ICON_X + ICON_SIZE + 12
      text_area_w == DISPLAY_WIDTH - text_x - 8
      font_temp == _load_font(fs, 34)
      font_label == _load_font(fs, 15)
      min_t == format_0f(fc.temp_min_c)
      max_t == format_0f(fc.temp_max_c)
      content_top == _HEADER_HEIGHT
      content_h == DISPLAY_HEIGHT - content_top
      temp_y == content_top + content_h \div 2 - 22
      min_w == textbbox_w(min_t, font_temp)
      slash_w == textbbox_w(<<"/">>, font_temp)
      max_w == textbbox_w(max_t, font_temp)
      deg_w == textbbox_w(DEG_C, font_label)
      total_w == min_w + slash_w + max_w + 4 + deg_w
      start_x == text_x + (text_area_w - total_w) \div 2
      x1 == start_x + min_w
      x2 == x1 + slash_w
      x3 == x2 + max_w + 2
      condition_font == _load_font(fs, 13)
      condition_text == str_capitalize(fc.condition)
      cond_w == textbbox_w(condition_text, condition_font)
      cond_x == text_x + (text_area_w - cond_w) \div 2
      cond_y == temp_y + 42
  IN  IF font_date.outcome # RETURNED THEN Raised(font_date.outcome)
      ELSE IF icon_image.outcome # RETURNED THEN Raised(icon_image.outcome)
      ELSE IF font_temp.outcome # RETURNED THEN Raised(font_temp.outcome)
      ELSE IF font_label.outcome # RETURNED THEN Raised(font_label.outcome)
      ELSE IF condition_font.outcome # RETURNED THEN Raised(condition_font.outcome)
      ELSE [outcome |-> RETURNED, mode |-> "RGB",
            size |-> <<DISPLAY_WIDTH, DISPLAY_HEIGHT>>,
            ops |-> <<text_op(<<6, 3>>, date_str, _DATE_COLOR, font_date),
                      text_op(<<DISPLAY_WIDTH - time_w - 6, 3>>, time_str(t),
                              _DATE_COLOR, font_date),
                      paste_op(<<ICON_X, ICON_Y>>, icon_image),
                      text_op(<<start_x, temp_y>>, min_t, _TEMP_MIN_COLOR, font_temp),
                      text_op(<<x1, temp_y>>, <<"/">>, _LABEL_COLOR, font_temp),
                      text_op(<<x2, temp_y>>, max_t, _TEMP_MAX_COLOR, font_temp),
                      text_op(<<x3, temp_y + 4>>, DEG_C, _LABEL_COLOR, font_label),
                      text_op(<<cond_x, cond_y>>, condition_text, _LABEL_COLOR,
                              condition_font)>>]

\* a render_weather that reads the wall clock whatever now is
render_weather_clock(fc, t, wall, fs) == RenderAt(fc, wall, fs)

\* wall is datetime.now() at the time of the call
render_weather(fc, t, wall, fs) == RenderAt(fc, IF t = None THEN wall ELSE t, fs)

NoRender == [outcome |-> PENDING, mode |-> NONE, size |-> <<0, 0>>, ops |-> <<>>]
NoForecast ==
  [condition |-> <<>>, temp_min_c |-> 0, temp_max_c |-> 0, icon_type |-> CLOUD]
NoCall == [forecast |-> NoForecast, now |-> None, img |-> NoRender]
Midnight == [month |-> 6, day |-> 15, hour |-> 0, minute |-> 0]

IdleFonts ==
  /\ fonts = [p \in FontPaths |-> ABSENT]
  /\ font_size = 12
  /\ loaded = NotLoaded
IdleRender ==
  /\ clock = Midnight
  /\ forecast = NoForecast
  /\ now = None
  /\ img = NoRender
  /\ earlier = NoCall

\* ------------------------------------------------------------ config.py
DEFAULT_UPDATE_HOURS == 6

\* Python values a Config field or a parsed JSON value can hold
StrValue(s) == [t |-> "str", s |-> s, n |-> 0]
IntValue(n) == [t |-> "int", s |-> "", n |-> n]
BoolValue(b) == [t |-> "bool", s |-> "", n |-> IF b THEN 1 ELSE 0]
NoneValue == [t |-> "NoneType", s |-> "", n |-> 0]
ListValue == [t |-> "list", s |-> "", n |-> 0]

\* Config.__dataclass_fields__
Fields ==
  {"provider", "location_id", "location_name", "update_hours", "last_updated",
   "insecure"}
\* Config(): the defaults of the dataclass
Config ==
  [provider |-> StrValue("bbc"),
   location_id |-> StrValue(""),
   location_name |-> StrValue(""),
   update_hours |-> IntValue(DEFAULT_UPDATE_HOURS),
   last_updated |-> NoneValue,
   insecure |-> BoolValue(FALSE)]

\* JSON values: a string, a number, null, true, false, an array
JsonValue(j, s, n) == [j |-> j, s |-> s, n |-> n]
\* json.dumps of one value
json_encode_none_as_text(v) ==
  CASE v.t = "str" -> JsonValue("string", v.s, 0)
    [] v.t = "int" -> JsonValue("number", "", v.n)
    [] v.t = "bool" -> JsonValue(IF v.n = 1 THEN "true" ELSE "false", "", 0)
    [] v.t = "NoneType" -> JsonValue("string", "None", 0)
    [] v.t = "list" -> JsonValue("array", "", 0)
json_encode(v) ==
  CASE v.t = "str" -> JsonValue("string", v.s, 0)
    [] v.t = "int" -> JsonValue("number", "", v.n)
    [] v.t = "bool" -> JsonValue(IF v.n = 1 THEN "true" ELSE "false", "", 0)
    [] v.t = "NoneType" -> JsonValue("null", "", 0)
    [] v.t = "list" -> JsonValue("array", "", 0)
\* json.loads of one value
json_decode(x) ==
  CASE x.j = "string" -> StrValue(x.s)
    [] x.j = "number" -> IntValue(x.n)
    [] x.j = "true" -> BoolValue(TRUE)
    [] x.j = "false" -> BoolValue(FALSE)
    [] x.j = "null" -> NoneValue
    [] x.j = "array" -> ListValue

\* what CONFIG_FILE holds: nothing, text that is no JSON, or a JSON
\* document; top is the type of the document's top value and members the
\* key -> value pairs of an object
MISSING == "missing"
NOT_JSON == "not json"
JSON == "json"
NoMembers == [k \in {} |-> JsonValue("null", "", 0)]
FileOf(kind, top, members) == [kind |-> kind, top |-> top, members |-> members]
NoFile == FileOf(MISSING, NONE, NoMembers)

\* json.dumps(asdict(cfg), indent=2) + "\n", written to the file
json_dumps_asdict(cfg) ==
  FileOf(JSON, "object", [f \in Fields |-> json_encode(cfg[f])])

Loaded(outcome, cfg) == [outcome |-> outcome, cfg |-> cfg]

\* a load_config that passes every key of the file to Config: an unknown
\* key raises TypeError, which is caught
load_config_unfiltered(file) ==
  IF file.kind = MISSING THEN Loaded(RETURNED, Config)
  ELSE IF file.kind = NOT_JSON THEN Loaded(RETURNED, Config)
  ELSE IF file.top # "object" THEN Loaded("AttributeError", Config)
  ELSE IF DOMAIN file.members \subseteq Fields
       THEN Loaded(RETURNED,
                   [f \in Fields |-> IF f \in DOMAIN file.members
                                     THEN json_decode(file.members[f])
                                     ELSE Config[f]])
       ELSE Loaded(RETURNED, Config)

load_config(file) ==
  IF file.kind = MISSING THEN Loaded(RETURNED, Config)
  \* json.loads raises JSONDecodeError, which is caught
  ELSE IF file.kind = NOT_JSON THEN Loaded(RETURNED, Config)
  \* data.items() of a list, a number, a string, a bool or None
  ELSE IF file.top # "object" THEN Loaded("AttributeError", Config)
  ELSE Loaded(RETURNED,
              [f \in Fields |-> IF f \in DOMAIN file.members
                                THEN json_decode(file.members[f])
                                ELSE Config[f]])

\* save_config(cfg): the file is replaced
save_config(cfg) == json_dumps_asdict(cfg)

NotLoadedConfig == Loaded(PENDING, Config)
\* no save_config since the file was last written by someone else
NoSave == [f \in Fields |-> ListValue]

IdleConfig ==
  /\ config_file = NoFile
  /\ load_out = NotLoadedConfig
  /\ last_saved = NoSave

\* ----------------------------------------- config.py: the update schedule
\* datetime values are counted in half seconds, so that the microseconds
\* isoformat(timespec="seconds") drops are seen
HalfSecondsPerHour == 7200

\* the text of last_updated: None, "", a text that is no ISO timestamp, or
\* an ISO timestamp of secs seconds with or without a UTC offset
NoText == [form |-> "None", secs |-> 0, tz |-> ""]
EmptyText == [form |-> "empty", secs |-> 0, tz |-> ""]
OtherText == [form |-> "text", secs |-> 0, tz |-> ""]
IsoText(secs, tz) == [form |-> "iso", secs |-> secs, tz |-> tz]

\* datetime.now().isoformat(timespec="seconds"): now() is naive, the
\* fraction of the second is dropped
isoformat_seconds(t) == IsoText(t \div 2, "")

\* datetime.fromisoformat(text): aware when the text has an offset
Parsed(outcome, t, aware) == [outcome |-> outcome, t |-> t, aware |-> aware]
fromisoformat(text) ==
  IF text.form = "iso" THEN Parsed(RETURNED, text.secs * 2, text.tz # "")
  ELSE Parsed("ValueError", 0, FALSE)

\* Config.last_updated_dt: outcome NONE stands for the value None
last_updated_dt(c) ==
  IF c.last_updated.form \in {"None", "empty"} THEN Parsed(NONE, 0, FALSE)
  ELSE IF fromisoformat(c.last_updated).outcome = "ValueError"
       THEN Parsed(NONE, 0, FALSE)
       ELSE fromisoformat(c.last_updated)

\* Config.mark_updated at the wall-clock time t
mark_updated(c, t) == [c EXCEPT !.last_updated = isoformat_seconds(t)]

Asked(outcome, value) == [outcome |-> outcome, value |-> value]
\* Config.needs_update at the wall-clock time t
needs_update(c, t) ==
  LET dt == last_updated_dt(c)
  IN  IF dt.outcome = NONE THEN Asked(RETURNED, TRUE)
      \* datetime.now() is naive: naive - aware raises
      ELSE IF dt.aware THEN Asked("TypeError", FALSE)
      ELSE Asked(RETURNED, t - dt.t >= c.update_hours * HalfSecondsPerHour)

NewConfig == [last_updated |-> NoText, update_hours |-> DEFAULT_UPDATE_HOURS]
NotAsked == Asked(PENDING, FALSE)
IdleSchedule == wallclock = 0 /\ cfg_obj = NewConfig /\ due = NotAsked

\* ------------------------------------------------- providers/__init__.py
\* _PROVIDERS is a dict: the sequence of its <<name, class>> items in
\* insertion order
\* _PROVIDERS[name] = cls: the value of a present key is replaced in place
dict_set(table, key, value) ==
  IF \E i \in 1..Len(table) : table[i][1] = key
  THEN [i \in 1..Len(table) |->
          IF table[i][1] = key THEN <<key, value>> ELSE table[i]]
  ELSE Append(table, <<key, value>>)

\* a register_provider that keeps the class a name already has
register_provider_first(table, name, cls) ==
  IF \E i \in 1..Len(table) : table[i][1] = name THEN table
  ELSE Append(table, <<name, cls>>)
register_provider(table, name, cls) == dict_set(table, name, cls)

\* cls(): an object that did not exist before; objs are the objects so far
NewObject(objs) == Len(objs) + 1

Got(outcome, cls, id) == [outcome |-> outcome, cls |-> cls, id |-> id]
\* keyword arguments: keyword -> value
NoKwargs == [k \in {} |-> ""]
Call(name, kwargs) == [name |-> name, kwargs |-> kwargs]
\* get_provider(name, **kwargs): kwargs are the keyword arguments passed
\* beside name; the signature has no other parameter
get_provider(table, name, kwargs, objs) ==
  IF DOMAIN kwargs # {} THEN Got("TypeError", NONE, 0)
  ELSE IF dict_get(table, name, NONE) = NONE THEN Got("ValueError", NONE, 0)
  ELSE Got(RETURNED, dict_get(table, name, NONE), NewObject(objs))

\* list(_PROVIDERS): the keys in insertion order
list_providers(table) == [i \in 1..Len(table) |-> table[i][1]]

Listed(outcome, names) == [outcome |-> outcome, names |-> names]
NoCallYet == Call("", NoKwargs)
NotGot == Got(PENDING, NONE, 0)
NotListed == Listed(PENDING, <<>>)
BBCWeatherProvider == "BBCWeatherProvider"
IdleRegistry ==
  /\ providers = <<>>
  /\ history = <<>>
  /\ made = <<>>
  /\ asked = NoCallYet
  /\ got = NotGot
  /\ listed = NotListed

\* --------------------------------------- providers/bbc.py: the BBC provider
_SEARCH_URL == "https://open.live.bbc.co.uk/locator/locations"
_FORECAST_URL == "https://weather-broker-cdn.api.bbci.co.uk/en/forecast/aggregated/{place_id}"

\* a provider object; verify_ssl is "unset" while the object has no such
\* attribute
Provider(id, verify_ssl) == [id |-> id, verify_ssl |-> verify_ssl]
NoProvider == Provider(0, "unset")

\* a requests.get call: the URL and the keyword arguments
Request(url, kwargs) == [url |-> url, kwargs |-> kwargs]
NoRequest == Request("", NoKwargs)

\* what the server answers: the outcome of requests.get and
\* raise_for_status, and the members of the JSON body; a list that is
\* absent reads like an empty one, an optional member is <<>> or <<value>>
Response(status, locations, results, forecasts) ==
  [status |-> status, locations |-> locations, results |-> results,
   forecasts |-> forecasts]
NoResponse == Response(PENDING, <<>>, <<>>, <<>>)

\* an entry of the search response; a member that is absent reads ""
Entry(id, name, container, country, placeType) ==
  [id |-> id, name |-> name, container |-> container, country |-> country,
   placeType |-> placeType]
Location(id, name, area, country) ==
  [id |-> id, name |-> name, area |-> area, country |-> country]

\* the loop of search_location with no seen_ids
RECURSIVE search_loop_all(_, _, _)
search_loop_all(raw, seen_ids, locations) ==
  IF raw = <<>> THEN locations
  ELSE LET loc == Head(raw)
       IN  IF loc.id = "" \/ loc.name = "" \/ loc.container = "" \/ loc.country = ""
           THEN search_loop_all(Tail(raw), seen_ids, locations)
           ELSE IF loc.placeType = "region"
           THEN search_loop_all(Tail(raw), seen_ids, locations)
           ELSE search_loop_all(Tail(raw), seen_ids,
                  Append(locations, Location(loc.id, loc.name, loc.container, loc.country)))
\* the loop of search_location over the raw entries still to visit
RECURSIVE search_loop(_, _, _)
search_loop(raw, seen_ids, locations) ==
  IF raw = <<>> THEN locations
  ELSE LET loc == Head(raw)
       IN  IF loc.id = "" \/ loc.name = "" \/ loc.container = "" \/ loc.country = ""
           THEN search_loop(Tail(raw), seen_ids, locations)
           ELSE IF loc.placeType = "region"
           THEN search_loop(Tail(raw), seen_ids, locations)
           ELSE IF loc.id \in seen_ids
           THEN search_loop(Tail(raw), seen_ids, locations)
           ELSE search_loop(Tail(raw), seen_ids \cup {loc.id},
                  Append(locations, Location(loc.id, loc.name, loc.container, loc.country)))

\* requests.get(_SEARCH_URL, params={"s": query, "format": "json"}, timeout=10)
search_request(query) ==
  Request(_SEARCH_URL, [params |-> query, timeout |-> "10"])

Found(outcome, locations) == [outcome |-> outcome, locations |-> locations]
\* BBCWeatherProvider.search_location, given the server's answer
search_location(resp) ==
  IF resp.status # "ok" THEN Found(resp.status, <<>>)
  ELSE LET locations_raw ==
             IF resp.locations # <<>> THEN resp.locations
             ELSE IF resp.results # <<>> THEN resp.results
             ELSE <<>>
       IN  Found(RETURNED, search_loop(locations_raw, {}, <<>>))

\* JSON numbers, in tenths: 5 is an int, 5.5 a float
JsonInt(n) == [float |-> FALSE, tenths |-> n * 10]
JsonFloat(t) == [float |-> TRUE, tenths |-> t]
\* float(x), in tenths
py_float(x) == x.tenths

\* forecasts[i].summary.report; a report or a summary that is absent reads
\* as the empty report
Report(weatherTypeText, minTempC, maxTempC, humidityPercent, windSpeedKph) ==
  [weatherTypeText |-> weatherTypeText, minTempC |-> minTempC,
   maxTempC |-> maxTempC, humidityPercent |-> humidityPercent,
   windSpeedKph |-> windSpeedKph]
EmptyReport == Report(<<>>, <<>>, <<>>, <<>>, <<>>)

\* requests.get(_FORECAST_URL.format(place_id=location_id), timeout=10)
forecast_request(location_id) == Request(_FORECAST_URL, [timeout |-> "10"])

Fetched(outcome, message, fc, location_name, humidity, wind_speed_kph) ==
  [outcome |-> outcome, message |-> message, forecast |-> fc,
   location_name |-> location_name, humidity |-> humidity,
   wind_speed_kph |-> wind_speed_kph]
Failed(outcome, message) == Fetched(outcome, message, NoForecast, "", <<>>, <<>>)
Cloudy == <<"c", "l", "o", "u", "d", "y">>
\* the WeatherForecast of one report
forecast_of(report, location_id) ==
  LET cond == str_lower(IF report.weatherTypeText = <<>> THEN Cloudy
                             ELSE report.weatherTypeText[1])
  IN  IF report.minTempC = <<>> \/ report.maxTempC = <<>>
      THEN Failed("ValueError", "Forecast missing temperature data")
      ELSE Fetched(RETURNED, "",
                   [condition |-> cond,
                    temp_min_c |-> py_float(report.minTempC[1]),
                    temp_max_c |-> py_float(report.maxTempC[1]),
                    icon_type |-> _condition_to_icon(cond)],
                   location_id, report.humidityPercent, report.windSpeedKph)
\* a get_forecast that reads the last forecast of the response
get_forecast_last(resp, location_id) ==
  IF resp.status # "ok" THEN Failed(resp.status, "")
  ELSE IF resp.forecasts = <<>>
  THEN Failed("ValueError", "No forecast data returned")
  ELSE forecast_of(resp.forecasts[Len(resp.forecasts)], location_id)
\* BBCWeatherProvider.get_forecast, given the server's answer
get_forecast(resp, location_id) ==
  IF resp.status # "ok" THEN Failed(resp.status, "")
  ELSE IF resp.forecasts = <<>>
  THEN Failed("ValueError", "No forecast data returned")
  ELSE forecast_of(resp.forecasts[1], location_id)

NotFound == Found(PENDING, <<>>)
NotFetched == Failed(PENDING, "")
IdleBbc ==
  /\ prov = NoProvider
  /\ response = NoResponse
  /\ request = NoRequest
  /\ found = NotFound
  /\ fetched = NotFetched

\* ------------------------------------------------------------------ cli.py
\* bool(v) of a Config field
truthy(v) ==
  CASE v.t = "str" -> v.s # ""
    [] v.t = "int" -> v.n # 0
    [] v.t = "bool" -> v.n = 1
    [] v.t = "NoneType" -> FALSE
    [] v.t = "list" -> FALSE

\* a Config that counts as configured as soon as it names a provider
is_configured_by_provider(c) == truthy(c.provider)
\* Config.is_configured
is_configured(c) == truthy(c.location_id)

\* the timestamps met as texts, in seconds since 2026-01-15T10:30:00
IsoStrings ==
  [s \in {"2026-01-15T10:30:00", "2026-01-15T13:30:00", "2026-01-15T17:30:00",
          "2026-01-15T10:30:00+00:00"} |->
     CASE s = "2026-01-15T10:30:00" -> IsoText(0, "")
       [] s = "2026-01-15T13:30:00" -> IsoText(3 * 3600, "")
       [] s = "2026-01-15T17:30:00" -> IsoText(7 * 3600, "")
       [] s = "2026-01-15T10:30:00+00:00" -> IsoText(0, "+00:00")]
\* the last_updated of a Config as the schedule reads it
text_of(v) ==
  IF v.t = "NoneType" THEN NoText
  ELSE IF v.s = "" THEN EmptyText
  ELSE IF v.s \in DOMAIN IsoStrings THEN IsoStrings[v.s]
  ELSE OtherText
\* the text of a timestamp
iso_string(text) == CHOOSE s \in DOMAIN IsoStrings : IsoStrings[s] = text
\* a schedule by which every update is due
cfg_needs_update_always(c, t) == Asked(RETURNED, TRUE)
\* cfg.needs_update() of a loaded Config
cfg_needs_update(c, t) ==
  needs_update([last_updated |-> text_of(c.last_updated),
                update_hours |-> c.update_hours.n], t)
\* cfg.mark_updated() of a loaded Config
cfg_mark_updated(c, t) ==
  [c EXCEPT !.last_updated = StrValue(iso_string(isoformat_seconds(t)))]

\* the QGIF data handed to upload_to_device: the magic, byte 5 and the
\* size in the header
Qgif(magic, byte5, width, height) ==
  [magic |-> magic, byte5 |-> byte5, width |-> width, height |-> height]
NoData == Qgif("", 0, 0, 0)
\* what encode_frames_to_qgif([img], path, fps=2) of rt82display writes
encode_frames_to_qgif(image, byte5) ==
  Qgif("QGIF", byte5, image.size[1], image.size[2])
\* qgif_data[5] == 0x05 is replaced by 0x03
patch_byte5(data) == [data EXCEPT !.byte5 = IF data.byte5 = 5 THEN 3 ELSE data.byte5]

\* how a command ended: the calls made that act outside the process, the
\* error() messages, the exit ("0", "Abort" or the exception that
\* escaped), the data uploaded and the config file afterwards
Done(effects, errors, exit, data, file) ==
  [effects |-> effects, errors |-> errors, exit |-> exit, data |-> data,
   file |-> file]

NOT_CONFIGURED == "Not configured yet. Run: rt82weather configure"

\* a finally clause that leaves the temporary file
finally_keep(done) == done
\* finally: tmp_qgif_path.unlink(missing_ok=True)
finally_unlink(done) == [done EXCEPT !.effects = Append(@, "unlink")]

\* an upload that marks and saves the config before the device is reached
upload_after_save(c, t, device, data, file, sent) ==
  LET saved == save_config(cfg_mark_updated(c, t))
      order == <<"save_config", "upload_to_device">>
  IN  IF device = "ConnectionError"
      THEN Done(sent \o order, <<"Connection failed">>, "Abort", data, saved)
      ELSE IF device # "ok"
      THEN Done(sent \o order, <<"Upload failed">>, "Abort", data, saved)
      ELSE Done(sent \o order, <<>>, "0", data, saved)
\* upload_to_device(data, frame_count=1); cfg.mark_updated(); save_config(cfg)
\* within the try block
upload_and_save(c, t, device, data, file, sent) ==
  IF device = "ConnectionError"
  THEN Done(Append(sent, "upload_to_device"), <<"Connection failed">>, "Abort", data, file)
  ELSE IF device # "ok"
  THEN Done(Append(sent, "upload_to_device"), <<"Upload failed">>, "Abort", data, file)
  ELSE Done(sent \o <<"upload_to_device", "save_config">>, <<>>, "0", data,
            save_config(cfg_mark_updated(c, t)))

\* update, from print_header("Encoding QGIF") on; encoder and device are
\* what rt82display does: "ImportError" when the package is missing
update_upload(c, image, t, encoder, byte5, device, file, done) ==
  LET tried == done \o <<"NamedTemporaryFile", "encode_frames_to_qgif">>
  IN  IF encoder = "ImportError" THEN Done(done, <<>>, "ImportError", NoData, file)
      ELSE IF encoder = "False"
      \* click.Abort is an Exception: the last except clause catches it
      THEN finally_unlink(Done(tried, <<"QGIF encoding failed", "Upload failed">>,
                               "Abort", NoData, file))
      ELSE IF encoder = "FileNotFoundError"
      THEN finally_unlink(Done(tried, <<"str(e)">>, "Abort", NoData, file))
      ELSE IF encoder # "ok"
      THEN finally_unlink(Done(tried, <<"Upload failed">>, "Abort", NoData, file))
      ELSE finally_unlink(
             upload_and_save(c, t, device,
                             patch_byte5(encode_frames_to_qgif(image, byte5)),
                             file, tried))

\* update and preview, from print_header("Fetching Weather") to the
\* rendered image
fetch_and_render(c, table, resp, fs, wall_dt) ==
  LET p == get_provider(table, c.provider.s, NoKwargs, <<>>)
      f == get_forecast(resp, c.location_id.s)
      image == render_weather(f.forecast, None, wall_dt, fs)
  IN  IF p.outcome # RETURNED
      THEN [done |-> Done(<<"get_provider">>, <<>>, p.outcome, NoData, NoFile),
            image |-> NoRender]
      ELSE IF f.outcome # RETURNED
      THEN [done |-> Done(<<"get_provider", "get_forecast">>,
                          <<"Failed to fetch weather">>, "Abort",
                          NoData, NoFile),
            image |-> NoRender]
      ELSE [done |-> Done(<<"get_provider", "get_forecast", "render_weather">>, <<>>,
                          IF image.outcome = RETURNED THEN "0" ELSE image.outcome,
                          NoData, NoFile),
            image |-> image]

\* the update command
update(file, force, t, table, resp, fs, wall_dt, encoder, byte5, device) ==
  LET got_cfg == load_config(file)
      c == got_cfg.cfg
      stale == IF force THEN Asked(RETURNED, TRUE) ELSE cfg_needs_update(c, t)
      shown == fetch_and_render(c, table, resp, fs, wall_dt)
  IN  IF got_cfg.outcome # RETURNED
      THEN Done(<<>>, <<>>, got_cfg.outcome, NoData, file)
      ELSE IF ~ is_configured(c)
      THEN Done(<<>>, <<NOT_CONFIGURED>>, "Abort", NoData, file)
      ELSE IF stale.outcome # RETURNED
      THEN Done(<<>>, <<>>, stale.outcome, NoData, file)
      ELSE IF ~ stale.value
      THEN Done(<<>>, <<>>, "0", NoData, file)
      ELSE IF shown.done.exit # "0"
      THEN [shown.done EXCEPT !.file = file]
      ELSE update_upload(c, shown.image, t, encoder, byte5, device, file,
                         shown.done.effects)

\* the preview command, with the default --output
preview(file, table, resp, fs, wall_dt) ==
  LET got_cfg == load_config(file)
      c == got_cfg.cfg
      shown == fetch_and_render(c, table, resp, fs, wall_dt)
  IN  IF got_cfg.outcome # RETURNED
      THEN Done(<<>>, <<>>, got_cfg.outcome, NoData, file)
      ELSE IF ~ is_configured(c)
      THEN Done(<<>>, <<NOT_CONFIGURED>>, "Abort", NoData, file)
      ELSE IF shown.done.exit # "0"
      THEN [shown.done EXCEPT !.file = file]
      ELSE Done(Append(shown.done.effects, "img.save"), <<>>, "0", NoData, file)

\* the install command on the platform.system() given
install(file, system) ==
  LET got_cfg == load_config(file)
      c == got_cfg.cfg
  IN  IF got_cfg.outcome # RETURNED
      THEN Done(<<>>, <<>>, got_cfg.outcome, NoData, file)
      ELSE IF ~ is_configured(c)
      THEN Done(<<>>, <<NOT_CONFIGURED>>, "Abort", NoData, file)
      ELSE IF system = "Linux"
      THEN Done(<<"_write_systemd_units", "systemctl daemon-reload",
                  "systemctl enable">>, <<>>, "0", NoData, file)
      ELSE IF system = "Darwin"
      THEN Done(<<"_write_launchd_plist", "launchctl unload", "launchctl load">>,
                <<>>, "0", NoData, file)
      ELSE Done(<<>>, <<"Unsupported platform">>, "Abort", NoData, file)

\* the texts f"{self.name}, {self.area}, {self.country}" of the places met
DisplayNames ==
  [place \in {<<"London", "Greater London", "GB">>, <<"London", "Ontario", "CA">>,
              <<"A", "B", "C">>} |->
     CASE place = <<"London", "Greater London", "GB">> -> "London, Greater London, GB"
       [] place = <<"London", "Ontario", "CA">> -> "London, Ontario, CA"
       [] place = <<"A", "B", "C">> -> "A, B, C"]
\* Location.display_name
display_name(loc) == DisplayNames[<<loc.name, loc.area, loc.country>>]

\* how many results configure lists and lets the user pick from
ShownResults == 15

\* a prompt that takes any number up to the number of locations
pick_a_number_of_all(locations, typed) ==
  LET valid == {i \in 1..Len(typed) : typed[i] \in 1..Len(locations)}
  IN  IF valid = {} THEN 0 ELSE typed[Min(valid)]
\* click.prompt("Pick a number", type=click.IntRange(1, min(len(locations), 15))):
\* the first number typed that is in the range, 0 when the input ends
\* before one is (click.Abort)
pick_a_number(locations, typed) ==
  LET valid == {i \in 1..Len(typed) :
                  typed[i] \in 1..Min({Len(locations), ShownResults})}
  IN  IF valid = {} THEN 0 ELSE typed[Min(valid)]

\* the configure command: provider and hours are the options ("" and 0
\* when not given), query is what is typed at the first prompt ("" when
\* the input ends there), typed the numbers typed at the second
configure(file, provider, hours, table, resp, query, typed) ==
  LET got_cfg == load_config(file)
      c == got_cfg.cfg
      c1 == IF provider # "" THEN [c EXCEPT !.provider = StrValue(provider)] ELSE c
      c2 == IF hours # 0 THEN [c1 EXCEPT !.update_hours = IntValue(hours)] ELSE c1
      p == get_provider(table, c2.provider.s, NoKwargs, <<>>)
      locations == search_location(resp)
      choice == pick_a_number(locations.locations, typed)
      selected == locations.locations[choice]
  IN  IF got_cfg.outcome # RETURNED
      THEN Done(<<>>, <<>>, got_cfg.outcome, NoData, file)
      ELSE IF p.outcome # RETURNED
      THEN Done(<<"get_provider">>, <<>>, p.outcome, NoData, file)
      ELSE IF query = ""
      THEN Done(<<"get_provider">>, <<>>, "Abort", NoData, file)
      ELSE IF locations.outcome # RETURNED
      THEN Done(<<"get_provider", "search_location">>, <<"Search failed">>, "Abort",
                NoData, file)
      ELSE IF locations.locations = <<>>
      THEN Done(<<"get_provider", "search_location">>, <<"No locations found">>,
                "Abort", NoData, file)
      ELSE IF choice = 0
      THEN Done(<<"get_provider", "search_location">>, <<>>, "Abort", NoData, file)
      ELSE Done(<<"get_provider", "search_location", "save_config">>, <<>>, "0", NoData,
                save_config([c2 EXCEPT !.location_id = StrValue(selected.id),
                                       !.location_name = StrValue(display_name(selected))]))

\* a command run: its name and arguments, what the machine was like, the
\* config file before it, and how it ended
Ran(command, args, file, done) ==
  [command |-> command, args |-> args, before |-> file, done |-> done]
NoArgs ==
  [force |-> FALSE, at |-> 0, encoder |-> NONE, byte5 |-> 0, device |-> NONE,
   system |-> NONE, provider |-> "", hours |-> 0, query |-> "", typed |-> <<>>]
NotRun == Ran(NONE, NoArgs, NoFile, Done(<<>>, <<>>, PENDING, NoData, NoFile))
IdleCli == ran = NotRun

IdleApp == IdleSchedule /\ IdleRegistry /\ IdleBbc /\ IdleCli

\* --------------------------------------- the icon synthesizer's state machine
DEFAULT_ICON_SIZE == 80

IdleIcons == icon_type = CLOUD /\ size = DEFAULT_ICON_SIZE /\ icon_img = NoImage

InitIcons ==
  /\ IdleClassifier /\ IdleFonts /\ IdleRender /\ IdleConfig /\ IdleApp
  /\ icon_type \in IconType
  /\ size \in 1..MaxIconSize
  /\ icon_img = NoImage

DrawIcon ==
  /\ icon_img = NoImage
  /\ icon_img' = draw_icon(icon_type, size)
  /\ UNCHANGED <<icon_type, size, classifierVars, fonts, fontVars, renderVars, configVars, appVars>>

\* the caller lets go of the image and asks for another size
NextSize ==
  /\ icon_img # NoImage
  /\ size < MaxIconSize
  /\ size' = size + 1
  /\ icon_img' = NoImage
  /\ UNCHANGED <<icon_type, classifierVars, fonts, fontVars, renderVars, configVars, appVars>>

NextIcons == DrawIcon \/ NextSize

SpecIcons == InitIcons /\ [][NextIcons]_vars

\* ---------------------------------------------- font selection's state machine
FontSizes == {34, 15, 13, 12}

InitFonts ==
  /\ IdleClassifier /\ IdleIcons /\ IdleRender /\ IdleConfig /\ IdleApp
  /\ fonts \in [FontPaths -> FileState]
  /\ font_size \in FontSizes
  /\ loaded = NotLoaded

LoadFont ==
  /\ loaded = NotLoaded
  /\ loaded' = _load_font(fonts, font_size)
  /\ UNCHANGED <<fonts, font_size, classifierVars, iconVars, renderVars, configVars, appVars>>

\* render_weather goes on to the next size it needs
NextFontSize ==
  /\ loaded # NotLoaded
  /\ \E s \in FontSizes :
       /\ s # font_size
       /\ font_size' = s
  /\ loaded' = NotLoaded
  /\ UNCHANGED <<fonts, classifierVars, iconVars, renderVars, configVars, appVars>>

NextFonts == LoadFont \/ NextFontSize

SpecFonts == InitFonts /\ [][NextFonts]_vars

\* ------------------------------------------- the layout renderer's state machine
\* conditions as the provider gives them
Sunny == <<"s","u","n","n","y">>
Snow == <<"s","n","o","w">>
Test == <<"t","e","s","t">>
\* temperatures are in tenths of a degree
Forecasts ==
  {[condition |-> Sunny, temp_min_c |-> 50, temp_max_c |-> 220, icon_type |-> t] :
     t \in IconType}
  \cup {[condition |-> Test, temp_min_c |-> -100, temp_max_c |-> 400, icon_type |-> t] :
          t \in {CLOUD, PARTLY_CLOUDY}}
  \cup {[condition |-> Snow, temp_min_c |-> -150, temp_max_c |-> -20, icon_type |-> SNOW],
        [condition |-> Sunny, temp_min_c |-> 225, temp_max_c |-> 95, icon_type |-> SUN]}
Nows ==
  {[month |-> 6, day |-> 15, hour |-> 14, minute |-> 30],
   [month |-> 12, day |-> 25, hour |-> 8, minute |-> 0]}

\* the installations rendered on: no candidate font, a good or a broken
\* first candidate, and a good second candidate alone
RenderFontEnvs ==
  {fs \in [FontPaths -> FileState] :
     /\ \A i \in 3..Len(FontCandidates) : fs[FontCandidates[i]] = ABSENT
     /\ fs[FontCandidates[2]] \in {ABSENT, FONT}
     /\ fs[FontCandidates[2]] = FONT => fs[FontCandidates[1]] = ABSENT}

InitRender ==
  /\ IdleClassifier /\ IdleIcons /\ IdleConfig /\ IdleApp
  /\ fonts \in RenderFontEnvs
  /\ font_size = 12 /\ loaded = NotLoaded
  /\ clock = Midnight
  /\ forecast = NoForecast
  /\ now = None
  /\ img = NoRender
  /\ earlier = NoCall

\* time passes between two calls
Tick ==
  /\ clock.hour < MaxTicks
  /\ clock' = [clock EXCEPT !.hour = clock.hour + 1]
  /\ UNCHANGED <<forecast, now, img, earlier, fonts, fontVars, classifierVars, iconVars, configVars, appVars>>

\* one call of render_weather; the call it follows may be kept to compare
Render ==
  /\ \E fc \in Forecasts, t \in Nows \cup {None} :
       /\ forecast' = fc
       /\ now' = t
       /\ img' = render_weather(fc, t, clock, fonts)
  /\ \/ earlier' = earlier
     \/ /\ img # NoRender /\ now # None
        /\ earlier' = [forecast |-> forecast, now |-> now, img |-> img]
  /\ UNCHANGED <<clock, fonts, fontVars, classifierVars, iconVars, configVars, appVars>>

NextRender == Tick \/ Render

SpecRender == InitRender /\ [][NextRender]_vars

\* ------------------------------------------- the persisted config's state machine
\* the Config values saved: every field at its default or at another value
Configs ==
  [provider : {StrValue("bbc"), StrValue("met")},
   location_id : {StrValue(""), StrValue("42")},
   location_name : {StrValue(""), StrValue("London")},
   update_hours : {IntValue(DEFAULT_UPDATE_HOURS), IntValue(3)},
   last_updated : {NoneValue, StrValue("2026-01-15T10:30:00")},
   insecure : {BoolValue(FALSE), BoolValue(TRUE)}]

\* JSON objects someone else wrote: some of the fields of a Config, with or
\* without a key that is no field
SomeConfigs ==
  {c \in Configs : c.location_name = StrValue("") /\ c.insecure = BoolValue(FALSE)}
Pick(c, keys, extra) ==
  [k \in keys \cup extra |->
     IF k \in keys THEN json_encode(c[k]) ELSE JsonValue("number", "", 99)]
ForeignObjects ==
  {FileOf(JSON, "object", Pick(c, keys, extra)) :
     c \in SomeConfigs, keys \in SUBSET Fields, extra \in {{}, {"unknown_key"}}}
\* files that are no JSON object
ForeignOthers ==
  {NoFile, FileOf(NOT_JSON, NONE, NoMembers)}
  \cup {FileOf(JSON, top, NoMembers) : top \in {"array", "number", "string", "null", "true"}}

InitConfig ==
  /\ IdleClassifier /\ IdleIcons /\ IdleFonts /\ IdleRender /\ IdleApp
  /\ config_file \in ForeignObjects \cup ForeignOthers
  /\ load_out = NotLoadedConfig
  /\ last_saved = NoSave

LoadConfig ==
  /\ load_out' = load_config(config_file)
  /\ UNCHANGED <<config_file, last_saved, classifierVars, iconVars, fonts, fontVars, renderVars, appVars>>

SaveConfig ==
  /\ \E c \in Configs :
       /\ config_file' = save_config(c)
       /\ last_saved' = c
  /\ load_out' = NotLoadedConfig
  /\ UNCHANGED <<classifierVars, iconVars, fonts, fontVars, renderVars, appVars>>

\* someone else removes the file or overwrites it with something else
Clobber ==
  /\ config_file' \in ForeignOthers
  /\ load_out' = NotLoadedConfig
  /\ last_saved' = NoSave
  /\ UNCHANGED <<classifierVars, iconVars, fonts, fontVars, renderVars, appVars>>

NextConfig == LoadConfig \/ SaveConfig \/ Clobber

SpecConfig == InitConfig /\ [][NextConfig]_vars

\* ------------------------------------------- the classifier's state machine

\* spec.md section 4.1: the vocabulary table, phrase -> category, with
\* "shower(s)" written out as both forms
Vocabulary ==
  <<
    [phrase |-> <<"s","u","n","n","y">>, category |-> SUN],
    [phrase |-> <<"c","l","e","a","r">>, category |-> SUN],
    [phrase |-> <<"c","l","e","a","r"," ","s","k","y">>, category |-> SUN],
    [phrase |-> <<"s","u","n","n","y"," ","i","n","t","e","r","v","a","l","s">>, category |-> PARTLY_CLOUDY],
    [phrase |-> <<"l","i","g","h","t"," ","c","l","o","u","d">>, category |-> PARTLY_CLOUDY],
    [phrase |-> <<"p","a","r","t","l","y"," ","c","l","o","u","d","y">>, category |-> PARTLY_CLOUDY],
    [phrase |-> <<"c","l","o","u","d","y">>, category |-> CLOUD],
    [phrase |-> <<"w","h","i","t","e"," ","c","l","o","u","d">>, category |-> CLOUD],
    [phrase |-> <<"g","r","e","y"," ","c","l","o","u","d">>, category |-> CLOUD],
    [phrase |-> <<"t","h","i","c","k"," ","c","l","o","u","d">>, category |-> CLOUD],
    [phrase |-> <<"d","r","i","z","z","l","e">>, category |-> RAIN],
    [phrase |-> <<"l","i","g","h","t"," ","s","h","o","w","e","r">>, category |-> RAIN],
    [phrase |-> <<"l","i","g","h","t"," ","r","a","i","n"," ","s","h","o","w","e","r">>, category |-> RAIN],
    [phrase |-> <<"l","i","g","h","t"," ","r","a","i","n"," ","s","h","o","w","e","r","s">>, category |-> RAIN],
    [phrase |-> <<"l","i","g","h","t"," ","s","h","o","w","e","r","s">>, category |-> RAIN],
    [phrase |-> <<"l","i","g","h","t"," ","r","a","i","n">>, category |-> RAIN],
    [phrase |-> <<"h","e","a","v","y"," ","r","a","i","n">>, category |-> RAIN],
    [phrase |-> <<"h","e","a","v","y"," ","s","h","o","w","e","r","s">>, category |-> RAIN],
    [phrase |-> <<"h","e","a","v","y"," ","s","h","o","w","e","r">>, category |-> RAIN],
    [phrase |-> <<"h","e","a","v","y"," ","r","a","i","n"," ","s","h","o","w","e","r">>, category |-> RAIN],
    [phrase |-> <<"h","e","a","v","y"," ","r","a","i","n"," ","s","h","o","w","e","r","s">>, category |-> RAIN],
    [phrase |-> <<"s","l","e","e","t">>, category |-> RAIN],
    [phrase |-> <<"s","l","e","e","t"," ","s","h","o","w","e","r">>, category |-> RAIN],
    [phrase |-> <<"s","l","e","e","t"," ","s","h","o","w","e","r","s">>, category |-> RAIN],
    [phrase |-> <<"c","l","o","u","d","y"," ","w","i","t","h"," ","s","l","e","e","t">>, category |-> RAIN],
    [phrase |-> <<"h","a","i","l">>, category |-> RAIN],
    [phrase |-> <<"h","a","i","l"," ","s","h","o","w","e","r">>, category |-> RAIN],
    [phrase |-> <<"h","a","i","l"," ","s","h","o","w","e","r","s">>, category |-> RAIN],
    [phrase |-> <<"c","l","o","u","d","y"," ","w","i","t","h"," ","h","a","i","l">>, category |-> RAIN],
    [phrase |-> <<"t","h","u","n","d","e","r","y"," ","s","h","o","w","e","r">>, category |-> THUNDERSTORM],
    [phrase |-> <<"t","h","u","n","d","e","r","y"," ","s","h","o","w","e","r","s">>, category |-> THUNDERSTORM],
    [phrase |-> <<"t","h","u","n","d","e","r","s","t","o","r","m">>, category |-> THUNDERSTORM],
    [phrase |-> <<"t","r","o","p","i","c","a","l"," ","s","t","o","r","m">>, category |-> THUNDERSTORM],
    [phrase |-> <<"m","i","s","t","y">>, category |-> MIST],
    [phrase |-> <<"m","i","s","t">>, category |-> MIST],
    [phrase |-> <<"f","o","g">>, category |-> MIST],
    [phrase |-> <<"f","o","g","g","y">>, category |-> MIST],
    [phrase |-> <<"h","a","z","y">>, category |-> MIST],
    [phrase |-> <<"l","i","g","h","t"," ","s","n","o","w">>, category |-> SNOW],
    [phrase |-> <<"l","i","g","h","t"," ","s","n","o","w"," ","s","h","o","w","e","r">>, category |-> SNOW],
    [phrase |-> <<"l","i","g","h","t"," ","s","n","o","w"," ","s","h","o","w","e","r","s">>, category |-> SNOW],
    [phrase |-> <<"c","l","o","u","d","y"," ","w","i","t","h"," ","l","i","g","h","t"," ","s","n","o","w">>, category |-> SNOW],
    [phrase |-> <<"h","e","a","v","y"," ","s","n","o","w">>, category |-> SNOW],
    [phrase |-> <<"h","e","a","v","y"," ","s","n","o","w"," ","s","h","o","w","e","r">>, category |-> SNOW],
    [phrase |-> <<"h","e","a","v","y"," ","s","n","o","w"," ","s","h","o","w","e","r","s">>, category |-> SNOW],
    [phrase |-> <<"c","l","o","u","d","y"," ","w","i","t","h"," ","h","e","a","v","y"," ","s","n","o","w">>, category |-> SNOW]
  >>

FreeAlphabet == {"f", "o", "g", "y", "F", " "}
FreeText == UNION {[1..n -> FreeAlphabet] : n \in 0..MaxFreeLen}

UpperCount(s) == Cardinality({i \in 1..Len(s) : IsUpper(s[i])})
\* the number of whitespace characters before and after the text
LeadPad(s) ==
  Cardinality({i \in 1..Len(s) : \A j \in 1..i : s[j] \in Whitespace})
TrailPad(s) ==
  Cardinality({i \in 1..Len(s) : \A j \in i..Len(s) : s[j] \in Whitespace})

InitClassifier ==
  /\ IdleIcons /\ IdleFonts /\ IdleRender /\ IdleConfig /\ IdleApp
  /\ icon = PENDING
  /\ \/ /\ origin \in 1..Len(Vocabulary)
        /\ condition = Vocabulary[origin].phrase
     \/ /\ origin = 0
        /\ condition \in FreeText

\* the caller writes one more letter of the phrase in upper case
UpperAt ==
  /\ icon = PENDING /\ origin # 0
  /\ UpperCount(condition) < MaxUpper
  /\ \E i \in 1..Len(condition) :
       /\ IsLower(condition[i])
       /\ condition' = [condition EXCEPT ![i] = char_upper(condition[i])]
  /\ UNCHANGED <<origin, icon, iconVars, fonts, fontVars, renderVars, configVars, appVars>>

\* the caller writes the whole phrase in upper case
UpperAll ==
  /\ icon = PENDING /\ origin # 0
  /\ condition' = str_upper(condition)
  /\ condition' # condition
  /\ UNCHANGED <<origin, icon, iconVars, fonts, fontVars, renderVars, configVars, appVars>>

PadLeft ==
  /\ icon = PENDING /\ origin # 0
  /\ LeadPad(condition) + TrailPad(condition) < MaxPad
  /\ \E w \in Whitespace : condition' = <<w>> \o condition
  /\ UNCHANGED <<origin, icon, iconVars, fonts, fontVars, renderVars, configVars, appVars>>

PadRight ==
  /\ icon = PENDING /\ origin # 0
  /\ LeadPad(condition) + TrailPad(condition) < MaxPad
  /\ \E w \in Whitespace : condition' = Append(condition, w)
  /\ UNCHANGED <<origin, icon, iconVars, fonts, fontVars, renderVars, configVars, appVars>>

Classify ==
  /\ icon = PENDING
  /\ icon' = _condition_to_icon(condition)
  /\ UNCHANGED <<condition, origin, iconVars, fonts, fontVars, renderVars, configVars, appVars>>

NextClassifier == UpperAt \/ UpperAll \/ PadLeft \/ PadRight \/ Classify

SpecClassifier == InitClassifier /\ [][NextClassifier]_vars

\* ------------------------------------------- the update schedule's state machine
\* the last_updated a config file may bring: absent, empty, no timestamp,
\* timestamps of the past and of the future, one with a UTC offset
LoadedTexts ==
  {NoText, EmptyText, OtherText, IsoText(0, ""), IsoText(3600, ""),
   IsoText(0, "+00:00"), IsoText((MaxHours + 1) * 3600, "")}

InitSchedule ==
  /\ IdleClassifier /\ IdleIcons /\ IdleFonts /\ IdleRender /\ IdleConfig /\ IdleCli
  /\ IdleRegistry /\ IdleBbc
  /\ wallclock = 0
  /\ cfg_obj \in [last_updated : LoadedTexts, update_hours : 0..MaxUpdateHours]
  /\ due = NotAsked

\* time passes: half a second after a whole second, an hour less a
\* second, or an hour
Elapse ==
  /\ \E d \in {1, HalfSecondsPerHour - 2, HalfSecondsPerHour} :
       /\ d = 1 => wallclock % 2 = 0
       /\ wallclock + d <= MaxHours * HalfSecondsPerHour
       /\ wallclock' = wallclock + d
  /\ due' = NotAsked
  /\ UNCHANGED <<cfg_obj, coreVars, registryVars, bbcVars, cliVars>>

MarkUpdated ==
  /\ cfg_obj' = mark_updated(cfg_obj, wallclock)
  /\ cfg_obj' # cfg_obj
  /\ due' = NotAsked
  /\ UNCHANGED <<wallclock, coreVars, registryVars, bbcVars, cliVars>>

NeedsUpdate ==
  /\ due = NotAsked
  /\ due' = needs_update(cfg_obj, wallclock)
  /\ UNCHANGED <<wallclock, cfg_obj, coreVars, registryVars, bbcVars, cliVars>>

NextSchedule == Elapse \/ MarkUpdated \/ NeedsUpdate

SpecSchedule == InitSchedule /\ [][NextSchedule]_vars

\* ------------------------------------------- the provider registry's state machine
\* the names providers are registered under, a name nobody registers, and
\* the provider classes of the callers
RegisteredNames == {"bbc", "met"}
UnknownNames == {"nonexistent"}
CallerClasses == {"FakeProvider", "OtherProvider"}

InitRegistry ==
  /\ IdleClassifier /\ IdleIcons /\ IdleFonts /\ IdleRender /\ IdleConfig /\ IdleCli
  /\ IdleSchedule /\ IdleBbc
  /\ providers = <<>>
  /\ history = <<>>
  /\ made = <<>>
  /\ asked = NoCallYet
  /\ got = NotGot
  /\ listed = NotListed

\* the bbc module is imported: its last statement registers the class
ImportBbc ==
  /\ Len(history) < MaxRegistrations
  /\ providers' = register_provider(providers, "bbc", BBCWeatherProvider)
  /\ history' = Append(history, <<"bbc", BBCWeatherProvider>>)
  /\ asked' = NoCallYet /\ got' = NotGot /\ listed' = NotListed
  /\ UNCHANGED <<made, coreVars, scheduleVars, bbcVars, cliVars>>

RegisterProvider ==
  /\ Len(history) < MaxRegistrations
  /\ \E name \in RegisteredNames, cls \in CallerClasses :
       /\ providers' = register_provider(providers, name, cls)
       /\ history' = Append(history, <<name, cls>>)
  /\ asked' = NoCallYet /\ got' = NotGot /\ listed' = NotListed
  /\ UNCHANGED <<made, coreVars, scheduleVars, bbcVars, cliVars>>

GetProvider ==
  /\ Len(made) < MaxObjects
  /\ \E name \in RegisteredNames \cup UnknownNames :
       /\ asked' = Call(name, NoKwargs)
       /\ got' = get_provider(providers, name, NoKwargs, made)
  /\ made' = IF got'.outcome = RETURNED THEN Append(made, got'.id) ELSE made
  /\ UNCHANGED <<providers, history, listed, coreVars, scheduleVars, bbcVars, cliVars>>

ListProviders ==
  /\ listed = NotListed
  /\ listed' = Listed(RETURNED, list_providers(providers))
  /\ UNCHANGED <<providers, history, made, asked, got, coreVars, scheduleVars, bbcVars, cliVars>>

NextRegistry == ImportBbc \/ RegisterProvider \/ GetProvider \/ ListProviders

SpecRegistry == InitRegistry /\ [][NextRegistry]_vars

\* ------------------------------------------- the BBC provider's state machine
BoundedSeq(S, n) == UNION {[1..k -> S] : k \in 0..n}

\* entries of a search response: places, an id met twice, a place with no
\* placeType, regions, and entries with a member missing
RawEntries ==
  {Entry("1", "London", "Greater London", "GB", "settlement"),
   Entry("1", "London", "Ontario", "CA", "settlement"),
   Entry("2", "A", "B", "C", ""),
   Entry("1", "London Region", "England", "GB", "region"),
   Entry("3", "North", "England", "GB", "region"),
   Entry("", "A", "B", "C", "settlement"),
   Entry("2", "", "B", "C", ""),
   Entry("3", "A", "", "C", ""),
   Entry("2", "A", "B", "", "settlement")}
SearchResponses ==
  {Response("ok", locations, results, <<>>) :
     locations \in BoundedSeq(RawEntries, MaxEntries),
     results \in {<<>>, <<Entry("9", "Z", "Y", "X", "")>>}}

\* reports of a forecast response
Reports ==
  {Report(<< <<"S","u","n","n","y">> >>, <<JsonInt(5)>>, <<JsonInt(18)>>,
          <<JsonInt(60)>>, <<JsonInt(15)>>),
   Report(<< <<"L","i","g","h","t"," ","R","a","i","n">> >>, <<JsonFloat(-15)>>,
          <<JsonFloat(55)>>, <<>>, <<>>),
   Report(<< <<"A","l","i","e","n">> >>, <<JsonInt(0)>>, <<JsonInt(0)>>, <<>>, <<>>),
   Report(<<>>, <<JsonInt(1)>>, <<JsonInt(2)>>, <<>>, <<>>),
   Report(<< <<"S","u","n","n","y">> >>, <<>>, <<JsonInt(18)>>, <<>>, <<>>),
   Report(<< <<"S","u","n","n","y">> >>, <<JsonInt(5)>>, <<>>, <<>>, <<>>),
   EmptyReport}
ForecastResponses ==
  {Response("ok", <<>>, <<>>, forecasts) :
     forecasts \in BoundedSeq(Reports, MaxForecasts)}
\* requests.get or raise_for_status raises
FailedResponses ==
  {Response(e, <<>>, <<>>, <<>>) : e \in {"HTTPError", "ConnectionError"}}

InitBbc ==
  /\ IdleClassifier /\ IdleIcons /\ IdleFonts /\ IdleRender /\ IdleConfig /\ IdleCli
  /\ IdleSchedule /\ IdleRegistry
  /\ prov = NoProvider
  /\ response \in SearchResponses \cup ForecastResponses \cup FailedResponses
  /\ request = NoRequest
  /\ found = NotFound
  /\ fetched = NotFetched

\* BBCWeatherProvider()
NewProvider ==
  /\ prov = NoProvider
  /\ prov' = Provider(NewObject(made), "unset")
  /\ made' = Append(made, prov'.id)
  /\ UNCHANGED <<response, request, found, fetched, providers, history, asked, got,
                 listed, coreVars, scheduleVars, cliVars>>

\* prov.search_location(query); found and fetched hold the latest call
SearchLocation ==
  /\ prov # NoProvider
  /\ \E query \in {"London"} : request' = search_request(query)
  /\ found' = search_location(response)
  /\ fetched' = NotFetched
  /\ UNCHANGED <<prov, response, registryVars, coreVars, scheduleVars, cliVars>>

\* prov.get_forecast(location_id)
GetForecast ==
  /\ prov # NoProvider
  /\ \E location_id \in {"123"} :
       /\ request' = forecast_request(location_id)
       /\ fetched' = get_forecast(response, location_id)
  /\ found' = NotFound
  /\ UNCHANGED <<prov, response, registryVars, coreVars, scheduleVars, cliVars>>

NextBbc == NewProvider \/ SearchLocation \/ GetForecast

SpecBbc == InitBbc /\ [][NextBbc]_vars

\* ------------------------------------ the provider in use: its state machine
\* the answers of the server: no location, one location, and one sunny
\* forecast
VerifyResponses ==
  {Response("ok", <<>>, <<>>, <<>>),
   Response("ok", <<Entry("123", "London", "Greater London", "GB", "settlement")>>,
            <<>>, <<>>),
   Response("ok", <<>>, <<>>,
            <<Report(<< <<"S","u","n","n","y">> >>, <<JsonInt(5)>>, <<JsonInt(18)>>,
                     <<JsonInt(60)>>, <<JsonInt(15)>>)>>)}

\* the bbc module is imported and nothing else is registered
InitVerify ==
  /\ IdleClassifier /\ IdleIcons /\ IdleFonts /\ IdleRender /\ IdleConfig /\ IdleCli
  /\ IdleSchedule
  /\ providers = register_provider(<<>>, "bbc", BBCWeatherProvider)
  /\ history = <<<<"bbc", BBCWeatherProvider>>>>
  /\ made = <<>>
  /\ asked = NoCallYet
  /\ got = NotGot
  /\ listed = NotListed
  /\ prov = NoProvider
  /\ response \in VerifyResponses
  /\ request = NoRequest
  /\ found = NotFound
  /\ fetched = NotFetched

\* prov = get_provider("bbc") or get_provider("bbc", verify_ssl=v); cls()
\* sets no attribute
GetBbcProvider ==
  /\ Len(made) < MaxObjects
  /\ \E kwargs \in {NoKwargs, [verify_ssl |-> "True"], [verify_ssl |-> "False"]} :
       /\ asked' = Call("bbc", kwargs)
       /\ got' = get_provider(providers, "bbc", kwargs, made)
  /\ made' = IF got'.outcome = RETURNED THEN Append(made, got'.id) ELSE made
  /\ prov' = IF got'.outcome = RETURNED THEN Provider(got'.id, "unset") ELSE prov
  /\ UNCHANGED <<providers, history, listed, response, request, found, fetched,
                 coreVars, scheduleVars, cliVars>>

\* prov.verify_ssl = v, by the caller; the object is no longer as
\* get_provider gave it
SetVerifySsl ==
  /\ prov # NoProvider
  /\ \E v \in {"True", "False"} : prov' = [prov EXCEPT !.verify_ssl = v]
  /\ prov' # prov
  /\ asked' = NoCallYet /\ got' = NotGot
  /\ UNCHANGED <<providers, history, made, listed, response, request, found, fetched,
                 coreVars, scheduleVars, cliVars>>

NextVerify ==
  GetBbcProvider \/ NewProvider \/ SetVerifySsl \/ SearchLocation \/ GetForecast

SpecVerify == InitVerify /\ [][NextVerify]_vars

\* ------------------------------------------------ the commands' state machine
\* the Configs the file may hold: configured or not, with a registered
\* provider or not, never updated, updated at 10:30, or with a
\* last_updated that carries a UTC offset
CliConfigs ==
  [provider : {StrValue("bbc"), StrValue("met")},
   location_id : {StrValue(""), StrValue("2643743")},
   location_name : {StrValue("London")},
   update_hours : {IntValue(DEFAULT_UPDATE_HOURS)},
   last_updated : {NoneValue, StrValue("2026-01-15T10:30:00"),
                   StrValue("2026-01-15T10:30:00+00:00")},
   insecure : {BoolValue(FALSE)}]
CliFiles ==
  {save_config(c) : c \in CliConfigs}
  \cup {NoFile, FileOf(JSON, "array", NoMembers)}
\* the first candidate font is absent or broken, the others are absent
CliFontEnvs ==
  {fs \in [FontPaths -> FileState] :
     /\ fs[FontCandidates[1]] \in {ABSENT, BROKEN}
     /\ \A i \in 2..Len(FontCandidates) : fs[FontCandidates[i]] = ABSENT}
\* 10:30, 13:30 and 17:30 of 2026-01-15, in half seconds since 10:30
CliTimes == {0, 3 * HalfSecondsPerHour, 7 * HalfSecondsPerHour}
CliResponses ==
  {Response("ok", <<>>, <<>>,
            <<Report(<< <<"S","u","n","n","y">> >>, <<JsonInt(5)>>, <<JsonInt(18)>>,
                     <<JsonInt(60)>>, <<JsonInt(15)>>)>>),
   Response("ok", <<>>, <<>>, <<>>),
   Response("ConnectionError", <<>>, <<>>, <<>>)}
\* what rt82display does: the import, the encoder and the device
Encoders == {"ok", "False", "FileNotFoundError", "RuntimeError", "ImportError"}
Devices == {"ok", "ConnectionError", "RuntimeError"}
\* the encoder fails, or it writes a file whose byte 5 is 3 or 5 and the
\* device answers
Rt82Display ==
  [encoder : Encoders \ {"ok"}, byte5 : {3}, device : {"ok"}]
  \cup [encoder : {"ok"}, byte5 : {3}, device : Devices]
  \cup [encoder : {"ok"}, byte5 : {5}, device : {"ok"}]
Systems == {"Linux", "Darwin", "Windows"}

\* cli.py is imported: bbc is registered
InitCli ==
  /\ IdleClassifier /\ IdleIcons /\ IdleBbc
  /\ wallclock = 0 /\ cfg_obj = NewConfig /\ due = NotAsked
  /\ providers = register_provider(<<>>, "bbc", BBCWeatherProvider)
  /\ history = <<<<"bbc", BBCWeatherProvider>>>>
  /\ made = <<>> /\ asked = NoCallYet /\ got = NotGot /\ listed = NotListed
  /\ fonts \in CliFontEnvs
  /\ font_size = 12 /\ loaded = NotLoaded
  /\ IdleRender
  /\ config_file \in CliFiles
  /\ load_out = NotLoadedConfig
  /\ last_saved = NoSave
  /\ ran = NotRun

\* time passes until the next of the times
Wait ==
  /\ \E t \in CliTimes :
       /\ t > wallclock
       /\ \A u \in CliTimes : u > wallclock => t <= u
       /\ wallclock' = t
  /\ UNCHANGED <<cfg_obj, due, coreVars, registryVars, bbcVars, cliVars>>

\* rt82weather update [--force], with one of the answers of the server
Update ==
  \E force \in BOOLEAN, resp \in CliResponses, lib \in Rt82Display :
    LET done == update(config_file, force, wallclock, providers, resp, fonts, clock,
                       lib.encoder, lib.byte5, lib.device)
    IN  /\ ran' = Ran("update",
                      [NoArgs EXCEPT !.force = force, !.at = wallclock,
                                     !.encoder = lib.encoder, !.byte5 = lib.byte5,
                                     !.device = lib.device],
                      config_file, done)
        /\ config_file' = done.file
        /\ UNCHANGED <<load_out, last_saved, classifierVars, iconVars, fonts, fontVars,
                       renderVars, scheduleVars, registryVars, bbcVars>>

\* rt82weather preview
Preview ==
  \E resp \in CliResponses :
    LET done == preview(config_file, providers, resp, fonts, clock)
    IN  /\ ran' = Ran("preview", NoArgs, config_file, done)
        /\ config_file' = done.file
        /\ UNCHANGED <<load_out, last_saved, classifierVars, iconVars, fonts, fontVars,
                       renderVars, scheduleVars, registryVars, bbcVars>>

\* rt82weather install
Install ==
  \E system \in Systems :
    LET done == install(config_file, system)
    IN  /\ ran' = Ran("install", [NoArgs EXCEPT !.system = system], config_file, done)
        /\ config_file' = done.file
        /\ UNCHANGED <<load_out, last_saved, classifierVars, iconVars, fonts, fontVars,
                       renderVars, scheduleVars, registryVars, bbcVars>>

NextCli == Wait \/ Update \/ Preview \/ Install

SpecCli == InitCli /\ [][NextCli]_vars

\* ------------------------------------------- the layout's state machine
\* the times of day rendered at: every hour, at the start, the middle
\* and the last minute of the hour
Minutes == {0, 30, 59}
TimesOfDay == [month : {6}, day : {15}, hour : 0..23, minute : Minutes]
\* forecasts whose temperatures have one, two and three characters
\* a condition with capitals: WeatherForecast(condition="Light Rain", ...)
LightRain == <<"L","i","g","h","t"," ","R","a","i","n">>
LayoutForecasts ==
  {fc \in Forecasts : fc.icon_type \in {SUN, SNOW, CLOUD}}
  \cup {[condition |-> LightRain, temp_min_c |-> 80, temp_max_c |-> 140,
         icon_type |-> RAIN]}

InitLayout == InitRender

\* the wall clock is at some time of day; what was rendered is gone
SetClock ==
  /\ \E t \in TimesOfDay : clock' = t
  /\ forecast' = NoForecast /\ now' = None /\ img' = NoRender
  /\ UNCHANGED <<earlier, fonts, fontVars, classifierVars, iconVars, configVars, appVars>>

\* render_weather(forecast) and render_weather(forecast, now) at the time
\* of the wall clock
RenderLayout ==
  /\ \E fc \in LayoutForecasts, t \in {None, clock} :
       /\ forecast' = fc
       /\ now' = t
       /\ img' = render_weather(fc, t, clock, fonts)
  /\ UNCHANGED <<clock, earlier, fonts, fontVars, classifierVars, iconVars, configVars, appVars>>

NextLayout == SetClock \/ RenderLayout

SpecLayout == InitLayout /\ [][NextLayout]_vars

\* -------------------------------------------- configure's state machine
\* the places of a long search result, by turns in England and Ontario
ManyPlaces ==
  [i \in 1..MaxResults |->
     IF i % 2 = 1
     THEN Entry(ToString(2643000 + i), "London", "Greater London", "GB", "settlement")
     ELSE Entry(ToString(2643000 + i), "London", "Ontario", "CA", "settlement")]
\* the server finds nothing, a few places (a region and a place met twice
\* among them), many places, or cannot be reached
ConfigureResponses ==
  {Response("ok", <<>>, <<>>, <<>>),
   Response("ok", <<Entry("1", "London Region", "England", "GB", "region"),
                    Entry("2643743", "London", "Greater London", "GB", "settlement"),
                    Entry("2643743", "London", "Ontario", "CA", "settlement"),
                    Entry("2", "A", "B", "C", "")>>, <<>>, <<>>),
   Response("ok", ManyPlaces, <<>>, <<>>),
   Response("ConnectionError", <<>>, <<>>, <<>>)}
\* the config file found: none, one that is no object, a fresh one, a
\* configured one, and one that names a provider not registered
ConfigureFiles ==
  {NoFile, FileOf(JSON, "array", NoMembers), save_config(Config),
   save_config([Config EXCEPT !.location_id = StrValue("2643743"),
                              !.location_name = StrValue("London, Greater London, GB"),
                              !.last_updated = StrValue("2026-01-15T10:30:00")]),
   save_config([Config EXCEPT !.provider = StrValue("met")])}
\* the numbers typed at the second prompt
TypedNumbers == {1, ShownResults, ShownResults + 1}
\* the options given and what is typed: nothing at the first prompt, or a
\* city and then numbers
Options == {<<"", 0>>, <<"met", 0>>, <<"bbc", 12>>}
Typings ==
  {<<"", <<>> >>} \cup {<<"london", typed>> : typed \in BoundedSeq(TypedNumbers, MaxTyped)}

InitConfigure ==
  /\ IdleClassifier /\ IdleIcons /\ IdleFonts /\ IdleRender /\ IdleSchedule
  /\ providers = register_provider(<<>>, "bbc", BBCWeatherProvider)
  /\ history = <<<<"bbc", BBCWeatherProvider>>>>
  /\ made = <<>> /\ asked = NoCallYet /\ got = NotGot /\ listed = NotListed
  /\ prov = NoProvider /\ request = NoRequest /\ found = NotFound
  /\ fetched = NotFetched
  /\ response \in ConfigureResponses
  /\ config_file \in ConfigureFiles
  /\ load_out = NotLoadedConfig
  /\ last_saved = NoSave
  /\ ran = NotRun

\* rt82weather configure [--provider P] [--hours H]
Configure ==
  \E option \in Options, typing \in Typings :
    LET done == configure(config_file, option[1], option[2], providers, response,
                          typing[1], typing[2])
    IN  /\ ran' = Ran("configure",
                      [NoArgs EXCEPT !.provider = option[1], !.hours = option[2],
                                     !.query = typing[1], !.typed = typing[2]],
                      config_file, done)
        /\ config_file' = done.file
        /\ UNCHANGED <<load_out, last_saved, classifierVars, iconVars, fonts, fontVars,
                       renderVars, scheduleVars, registryVars, bbcVars>>

\* someone removes the config file
RemoveConfig ==
  /\ config_file # NoFile
  /\ config_file' = NoFile
  /\ ran' = NotRun
  /\ UNCHANGED <<load_out, last_saved, classifierVars, iconVars, fonts, fontVars,
                 renderVars, scheduleVars, registryVars, bbcVars>>

NextConfigure == Configure \/ RemoveConfig

SpecConfigure == InitConfigure /\ [][NextConfigure]_vars

\* ---------------------------------------------------------------- claims
\* case-insensitive equality of two characters
SameLetter(c, d) == c = d \/ char_lower(c) = d \/ c = char_lower(d)

\* s is a whitespace characters, the phrase p in some letter case, and b
\* whitespace characters
IsVariantOf(s, p, a, b) ==
  /\ Len(s) = a + Len(p) + b
  /\ \A i \in 1..a : s[i] \in Whitespace
  /\ \A i \in 1..Len(p) : SameLetter(s[a + i], p[i])
  /\ \A i \in (a + Len(p) + 1)..Len(s) : s[i] \in Whitespace

\* C1: every phrase of the vocabulary table of spec.md, in any letter case
\* and with or without surrounding whitespace, is classified as the
\* category the table documents for it.
C1_VocabularyClassified ==
  (icon # PENDING /\ origin # 0) => icon = Vocabulary[origin].category

C1_Witness ==
  /\ icon = THUNDERSTORM
  /\ origin # 0
  /\ condition # Vocabulary[origin].phrase
  /\ Len(condition) > Len(Vocabulary[origin].phrase)
  /\ UpperCount(condition) > 0

\* C2: the classifier is total: it returns a category for every string,
\* and Cloud for every string that is not, up to letter case and
\* surrounding whitespace, a key of the table; a key that occurs only as
\* a proper substring does not count.
C2_TotalWithCloudDefault ==
  icon # PENDING =>
    /\ icon \in IconType
    /\ \/ icon = CLOUD
       \/ \E a \in 0..LeadPad(condition), b \in 0..TrailPad(condition) :
            \E i \in 1..Len(_CONDITION_TO_ICON) :
              IsVariantOf(condition, _CONDITION_TO_ICON[i][1], a, b)

C2_Witness ==
  /\ icon = CLOUD
  /\ origin = 0
  /\ condition = <<"f", "o", "g", "g">>

\* C5 (as claimed): draw_icon returns an RGBA bitmap of size x size pixels
\* for every icon category and every positive size.
C5_SizeBySizeForEverySize ==
  icon_img # NoImage =>
    /\ icon_img.outcome = RETURNED
    /\ icon_img.mode = "RGBA"
    /\ icon_img.size = <<size, size>>

\* C6: at the default size 80 every category's icon has at least one pixel
\* of non-zero alpha.
C6_VisibleAtDefaultSize ==
  (icon_img # NoImage /\ size = DEFAULT_ICON_SIZE) =>
    /\ icon_img.outcome = RETURNED
    /\ icon_img.painted # {}

C6_Witness ==
  /\ size = DEFAULT_ICON_SIZE
  /\ icon_type = MIST
  /\ icon_img.outcome = RETURNED
  /\ Cardinality(icon_img.painted) >= 4

\* C7 (as claimed): _load_font returns a font for every state of the
\* candidate files: the first existing candidate, or the built-in font when
\* none exists; it raises nothing.
C7_FontAlwaysLoaded ==
  loaded # NotLoaded =>
    /\ loaded.outcome = RETURNED
    /\ LET there == {i \in 1..Len(FontCandidates) : fonts[FontCandidates[i]] # ABSENT}
       IN  loaded.face = IF there = {} THEN DEFAULT_FONT
                         ELSE FontCandidates[Min(there)]

\* C3 (as claimed): render_weather returns an RGB bitmap of 240 x 136
\* pixels, both divisible by 4, for every forecast, and raises nothing.
C3_RenderedAtDisplaySize ==
  img # NoRender =>
    /\ img.outcome = RETURNED
    /\ img.mode = "RGB"
    /\ img.size = <<240, 136>>
    /\ img.size[1] % 4 = 0 /\ img.size[2] % 4 = 0

\* C4: two calls of render_weather with the same forecast and the same
\* explicit now give the same bitmap, whatever was rendered and however
\* much time passed between them.
C4_DeterministicGivenNow ==
  (img # NoRender /\ earlier # NoCall /\ now # None
     /\ earlier.forecast = forecast /\ earlier.now = now)
    => img = earlier.img

C4_Witness ==
  /\ img.outcome = RETURNED /\ Len(img.ops) = 8
  /\ earlier # NoCall /\ now # None
  /\ earlier.forecast = forecast /\ earlier.now = now
  /\ clock.hour = MaxTicks

\* the file is missing or corrupt: no JSON, or JSON that is no object
Corrupt(file) == file.kind # JSON \/ file.top # "object"

\* C8 (as claimed): load_config raises nothing, and gives the all-default
\* Config when the file is missing or corrupt.
C8_DefaultsWhenMissingOrCorrupt ==
  load_out # NotLoadedConfig =>
    /\ load_out.outcome = RETURNED
    /\ Corrupt(config_file) => load_out.cfg = Config

\* C9: from a JSON object, load_config takes the file's value for every
\* field the object has and the default for every field it lacks, whatever
\* other keys the object has.
C9_KnownKeysKeptUnknownIgnored ==
  (load_out # NotLoadedConfig /\ ~ Corrupt(config_file)) =>
    /\ load_out.outcome = RETURNED
    /\ \A f \in Fields :
         load_out.cfg[f] = IF f \in DOMAIN config_file.members
                           THEN json_decode(config_file.members[f])
                           ELSE Config[f]

C9_Witness ==
  /\ load_out.outcome = RETURNED
  /\ ~ Corrupt(config_file)
  /\ "unknown_key" \in DOMAIN config_file.members
  /\ "location_id" \in DOMAIN config_file.members
  /\ load_out.cfg.location_id = StrValue("42")
  /\ "update_hours" \notin DOMAIN config_file.members
  /\ load_out.cfg.update_hours = IntValue(6)

\* C10: load_config after save_config(cfg) gives a Config equal to cfg in
\* all six fields, whatever the file held before the save.
C10_SaveLoadRoundTrip ==
  (load_out # NotLoadedConfig /\ last_saved # NoSave) =>
    /\ load_out.outcome = RETURNED
    /\ \A f \in Fields : load_out.cfg[f] = last_saved[f]

C10_Witness ==
  /\ load_out.outcome = RETURNED
  /\ last_saved # NoSave
  /\ load_out.cfg = last_saved
  /\ last_saved.last_updated = NoneValue
  /\ last_saved.insecure = BoolValue(TRUE)
  /\ last_saved.update_hours = IntValue(3)

\* the text is an ISO timestamp
IsIso(text) == text.form = "iso"

\* C11 (as claimed): needs_update returns True when last_updated is absent
\* or no valid ISO timestamp, and otherwise True exactly when the time
\* since last_updated is at least update_hours hours.
C11_NeedsUpdateByElapsedTime ==
  due # NotAsked =>
    /\ due.outcome = RETURNED
    /\ due.value =
         (IsIso(cfg_obj.last_updated) =>
            wallclock - 2 * cfg_obj.last_updated.secs
              >= cfg_obj.update_hours * HalfSecondsPerHour)

\* the register_provider calls made under the name
RegistrationsOf(name) == {i \in 1..Len(history) : history[i][1] = name}

\* C13: after any sequence of register_provider calls, get_provider gives
\* a new instance of the class registered last under the name and raises
\* ValueError for a name never registered, and list_providers gives
\* exactly the registered names, bbc among them once bbc is imported.
C13_RegistryResolvesLatest ==
  /\ got # NotGot =>
       IF RegistrationsOf(asked.name) = {}
       THEN got.outcome = "ValueError"
       ELSE /\ got.outcome = RETURNED
            /\ got.cls = history[Max(RegistrationsOf(asked.name))][2]
            /\ \A i \in 1..Len(made) : made[i] = got.id => i = Len(made)
  /\ listed # NotListed =>
       /\ listed.outcome = RETURNED
       /\ {listed.names[i] : i \in 1..Len(listed.names)}
            = {history[i][1] : i \in 1..Len(history)}
       /\ Len(listed.names) = Cardinality({history[i][1] : i \in 1..Len(history)})
       /\ (\E i \in 1..Len(history) : history[i] = <<"bbc", BBCWeatherProvider>>)
            => \E i \in 1..Len(listed.names) : listed.names[i] = "bbc"

C13_Witness ==
  /\ got.outcome = RETURNED /\ asked.name = "bbc" /\ got.cls = "OtherProvider"
  /\ Cardinality(RegistrationsOf("bbc")) = 2
  /\ history[1] = <<"bbc", BBCWeatherProvider>>
  /\ Len(made) = 2
  /\ Len(listed.names) = 2

\* the entry has an id, a name, a container and a country and is no region
Usable(e) ==
  /\ e.id # "" /\ e.name # "" /\ e.container # "" /\ e.country # ""
  /\ e.placeType # "region"
\* the entries of the response that search_location reads
RawOf(resp) == IF resp.locations # <<>> THEN resp.locations ELSE resp.results
\* the positions of the usable entries that are the first usable ones of
\* their id
FirstUsable(raw) ==
  {i \in 1..Len(raw) :
     /\ Usable(raw[i])
     /\ \A j \in 1..(i - 1) : Usable(raw[j]) => raw[j].id # raw[i].id}
\* the k-th smallest element of a set of numbers
Nth(S, k) == CHOOSE i \in S : Cardinality({j \in S : j <= i}) = k

\* C14: search_location returns, in the order of the response, exactly the
\* usable entries, the first of each id only: no id twice, no region.
C14_SearchFiltersAndDedupes ==
  found.outcome = RETURNED =>
    LET raw == RawOf(response)
        kept == FirstUsable(raw)
    IN  /\ Len(found.locations) = Cardinality(kept)
        /\ \A k \in 1..Len(found.locations) :
             LET e == raw[Nth(kept, k)]
             IN  found.locations[k] = Location(e.id, e.name, e.container, e.country)
        /\ \A k, l \in 1..Len(found.locations) :
             found.locations[k].id = found.locations[l].id => k = l
        /\ \A k \in 1..Len(found.locations) :
             \E i \in 1..Len(raw) :
               /\ raw[i].placeType # "region"
               /\ found.locations[k] =
                    Location(raw[i].id, raw[i].name, raw[i].container, raw[i].country)

C14_Witness ==
  /\ found.outcome = RETURNED
  /\ Len(response.locations) = 3
  /\ response.locations[1].placeType = "region"
  /\ response.locations[1].id = "1"
  /\ response.locations[3].id = "1"
  /\ Len(found.locations) = 1
  /\ found.locations[1].area = "Greater London"

\* C15: get_forecast raises ValueError for a response with no forecasts
\* ('No forecast data') or with a first report that lacks minTempC or
\* maxTempC ('missing temperature'); otherwise it returns the forecast of
\* the first report: the lower-cased weatherTypeText ('cloudy' when
\* absent), the temperatures as floats, the icon of the condition.
C15_ForecastFromFirstReport ==
  (fetched # NotFetched /\ response.status = "ok") =>
    IF response.forecasts = <<>>
    THEN /\ fetched.outcome = "ValueError"
         /\ fetched.message = "No forecast data returned"
    ELSE LET r == response.forecasts[1]
         IN  IF r.minTempC = <<>> \/ r.maxTempC = <<>>
             THEN /\ fetched.outcome = "ValueError"
                  /\ fetched.message = "Forecast missing temperature data"
             ELSE /\ fetched.outcome = RETURNED
                  /\ fetched.forecast.condition =
                       (IF r.weatherTypeText = <<>> THEN Cloudy
                        ELSE str_lower(r.weatherTypeText[1]))
                  /\ fetched.forecast.temp_min_c = r.minTempC[1].tenths
                  /\ fetched.forecast.temp_max_c = r.maxTempC[1].tenths
                  /\ fetched.forecast.icon_type =
                       _condition_to_icon(fetched.forecast.condition)

C15_Witness ==
  /\ fetched.outcome = RETURNED
  /\ Len(response.forecasts) = 2
  /\ response.forecasts[2] = EmptyReport
  /\ fetched.forecast.condition = <<"l","i","g","h","t"," ","r","a","i","n">>
  /\ fetched.forecast.icon_type = RAIN
  /\ fetched.forecast.temp_min_c = -15

\* C17 (as claimed): get_provider(name, verify_ssl=v) returns a provider
\* whose verify_ssl is v, and every request of search_location and
\* get_forecast passes verify=<the provider's verify_ssl>.
C17_VerifySslPropagated ==
  /\ (got # NotGot /\ "verify_ssl" \in DOMAIN asked.kwargs) =>
       /\ got.outcome = RETURNED
       /\ prov.id = got.id
       /\ prov.verify_ssl = asked.kwargs["verify_ssl"]
  /\ request # NoRequest =>
       /\ "verify" \in DOMAIN request.kwargs
       /\ request.kwargs["verify"] = prov.verify_ssl

\* C12: with a loaded config whose location_id is empty, update, preview
\* and install abort before any provider call, render, encode, upload,
\* file write or service installation, and leave the config file as it
\* was.
C12_UnconfiguredAborts ==
  (/\ ran.command \in {"update", "preview", "install"}
   /\ load_config(ran.before).outcome = RETURNED
   /\ load_config(ran.before).cfg.location_id = StrValue(""))
    => /\ ran.done.exit = "Abort"
       /\ ran.done.effects = <<>>
       /\ ran.done.data = NoData
       /\ config_file = ran.before

C12_Witness ==
  /\ ran.command = "update" /\ ran.args.force
  /\ ran.before.kind = JSON /\ ran.before.top = "object"
  /\ load_config(ran.before).cfg.location_id = StrValue("")
  /\ load_config(ran.before).cfg.provider = StrValue("bbc")
  /\ ran.done.errors = <<NOT_CONFIGURED>>

\* C16: when encode_frames_to_qgif raises FileNotFoundError, the encoding
\* step of update does not fail: it yields QGIF data that starts with
\* 'QGIF' and whose header says width 240 and height 136.
C16_EncoderFallback ==
  (/\ ran.command = "update"
   /\ ran.args.encoder = "FileNotFoundError"
   /\ \E i \in 1..Len(ran.done.effects) : ran.done.effects[i] = "encode_frames_to_qgif")
    => /\ ran.done.exit # "Abort"
       /\ ran.done.data.magic = "QGIF"
       /\ ran.done.data.width = DISPLAY_WIDTH
       /\ ran.done.data.height = DISPLAY_HEIGHT

\* C18: update ends normally or with click.Abort, and every abort follows
\* an error message; no other exception escapes.
C18_UpdateFailuresAbort ==
  ran.command = "update"
    => /\ ran.done.exit \in {"0", "Abort"}
       /\ ran.done.exit = "Abort" => ran.done.errors # <<>>

\* the time the image on hand was rendered for
RenderedFor == IF now = None THEN clock ELSE now

\* C19: the header time string is the hour on the 12-hour clock, in 1..12
\* (0 shown as 12) and with no leading zero, followed by AM when the hour
\* is before 12 and by PM otherwise, and nothing else, whatever the
\* minute.
C19_HeaderTimeTwelveHour ==
  img.outcome = RETURNED =>
    LET s == img.ops[2].text
        n == Len(s) - 2
        h == RenderedFor.hour
    IN  /\ n \in {1, 2}
        /\ SubSeq(s, n + 1, n + 2) = IF h < 12 THEN <<"A", "M">> ELSE <<"P", "M">>
        /\ s[1] # "0"
        /\ \E k \in 1..12 : k % 12 = h % 12 /\ SubSeq(s, 1, n) = Digits(k)

C19_Witness ==
  /\ img.outcome = RETURNED
  /\ RenderedFor.hour = 14 /\ RenderedFor.minute = 30
  /\ img.ops[2].text = <<"2", "P", "M">>

\* the text column to the right of the icon
ColumnLeft == ICON_X + ICON_SIZE + 12
ColumnRight == DISPLAY_WIDTH - 8

\* C20: the temperature run as drawn, from the left of the minimum to the
\* right of the unit, has left and right margins in the text column that
\* differ by at most one pixel.
C20_TemperatureRunCentred ==
  img.outcome = RETURNED =>
    LET left == img.ops[4].xy[1] - ColumnLeft
        right == ColumnRight
                   - (img.ops[7].xy[1] + textbbox_w(img.ops[7].text, img.ops[7].font))
    IN  left - right \in -1..1

\* C21: with a font file in use, the slash and the unit are drawn in the
\* label colour and in a font smaller than the font of the minimum and the
\* maximum, the minimum in the cool-blue colour and the maximum in the
\* warm-orange colour.
C21_SlashAndUnitSmaller ==
  (img.outcome = RETURNED /\ img.ops[4].font.face # DEFAULT_FONT) =>
    /\ img.ops[4].fill = _TEMP_MIN_COLOR
    /\ img.ops[6].fill = _TEMP_MAX_COLOR
    /\ img.ops[5].fill = _LABEL_COLOR
    /\ img.ops[7].fill = _LABEL_COLOR
    /\ img.ops[6].font.size = img.ops[4].font.size
    /\ img.ops[5].font.size < img.ops[4].font.size
    /\ img.ops[7].font.size < img.ops[4].font.size

\* C22: the condition label is the forecast's condition with its first
\* character upper-cased and every other character as it is.
C22_LabelRestUnchanged ==
  (img.outcome = RETURNED /\ forecast.condition # <<>>) =>
    img.ops[8].text = <<char_upper(forecast.condition[1])>> \o Tail(forecast.condition)

\* the place of a call among the effects of the command run, 0 when it
\* was not made
PlaceOf(call) ==
  LET at == {i \in 1..Len(ran.done.effects) : ran.done.effects[i] = call}
  IN  IF at = {} THEN 0 ELSE Min(at)

\* C23: update writes the config file only after upload_to_device has
\* returned: when the upload did not succeed the file is what it was, and
\* when it did the saved config differs from the loaded one in
\* last_updated alone.
C23_ConfigSavedAfterUpload ==
  ran.command = "update" =>
    IF ran.done.exit = "0" /\ PlaceOf("upload_to_device") > 0
    THEN /\ PlaceOf("save_config") > PlaceOf("upload_to_device")
         /\ load_config(config_file).outcome = RETURNED
         /\ \A f \in Fields \ {"last_updated"} :
              load_config(config_file).cfg[f] = load_config(ran.before).cfg[f]
    ELSE /\ PlaceOf("save_config") = 0
         /\ config_file = ran.before

C23_Witness ==
  /\ ran.command = "update" /\ ran.done.exit = "0"
  /\ PlaceOf("upload_to_device") > 0
  /\ load_config(ran.before).cfg.last_updated = StrValue("2026-01-15T10:30:00")
  /\ load_config(config_file).cfg.last_updated = StrValue("2026-01-15T17:30:00")

\* the config the command run has loaded
LoadedBefore == load_config(ran.before).cfg
\* its last update is a timestamp without offset less than update_hours old
Fresh ==
  LET text == text_of(LoadedBefore.last_updated)
  IN  /\ text.form = "iso" /\ text.tz = ""
      /\ ran.args.at - 2 * text.secs < LoadedBefore.update_hours.n * HalfSecondsPerHour

C25_TemporaryFileRemoved ==
  ran.command = "update" =>
    /\ PlaceOf("NamedTemporaryFile") > 0
         => ran.done.effects[Len(ran.done.effects)] = "unlink"
    /\ PlaceOf("upload_to_device") > 0
         => /\ ran.args.encoder = "ok"
            /\ PlaceOf("encode_frames_to_qgif") \in 1..(PlaceOf("upload_to_device") - 1)

C25_Witness ==
  /\ ran.command = "update" /\ ran.args.encoder = "False"
  /\ PlaceOf("NamedTemporaryFile") > 0
  /\ PlaceOf("upload_to_device") = 0
  /\ ran.done.effects[Len(ran.done.effects)] = "unlink"
  /\ ran.done.exit = "Abort"

\* the locations the search of the command run has found
SearchResults == search_location(response).locations

\* C26: configure writes the config only when a location has been chosen:
\* a run that does not end normally leaves the config file as it was and
\* calls no save_config, and after a run that ends normally the saved
\* location_id and location_name are the id and the display_name of one
\* of the first 15 locations found, at a number that was typed.
C26_ConfigureSavesChosenLocation ==
  ran.command = "configure" =>
    IF ran.done.exit = "0"
    THEN /\ PlaceOf("search_location") \in 1..(PlaceOf("save_config") - 1)
         /\ \E i \in 1..ShownResults :
              /\ i <= Len(SearchResults)
              /\ i \in {ran.args.typed[j] : j \in 1..Len(ran.args.typed)}
              /\ load_config(config_file).cfg.location_id
                   = StrValue(SearchResults[i].id)
              /\ load_config(config_file).cfg.location_name
                   = StrValue(display_name(SearchResults[i]))
    ELSE /\ PlaceOf("save_config") = 0
         /\ config_file = ran.before

\* sixteen is typed and refused, then fifteen is taken
C26_Witness ==
  /\ ran.command = "configure" /\ ran.done.exit = "0"
  /\ ran.args.typed = <<ShownResults + 1, ShownResults>>
  /\ Len(SearchResults) > ShownResults
  /\ load_config(config_file).cfg.location_id = StrValue(SearchResults[ShownResults].id)
  /\ load_config(config_file).cfg.location_name = StrValue("London, Greater London, GB")
  /\ config_file # ran.before

====
